---- MODULE Spec2Model ----
(***************************************************************************)
(* A model of graph-oauth's authorization-code request construction:       *)
(* AuthCodeAuthorizationUrlParameters, its builder, and                    *)
(* authorization_url_with_host (identity/credentials/                      *)
(* auth_code_authorization_url.rs), AuthorizationCodeCredential and its    *)
(* builder (authorization_code_credential.rs), and the token request of    *)
(* trait TokenRequest (token_request.rs).                                  *)
(*                                                                         *)
(* Strings are sequences of one-character strings, so that trimming,       *)
(* joining and form-urlencoding are computed character by character.       *)
(* Option<T> is a sequence of length 0 (None) or 1 (Some).                 *)
(***************************************************************************)
EXTENDS Naturals, Sequences, FiniteSets, TLC

VARIABLES parameters, credential, implementor, network, facade, listener,
          channel, suspended, pc, result

vars ==
    <<parameters, credential, implementor, network, facade, listener, channel,
      suspended, pc, result>>

\* ------------------------------------------------------------------ bounds

\* Longest scope list the model builds.
MaxScope == 2

\* Largest number of the seven optional string/enum parameters (state, prompt,
\* login_hint, domain_hint, nonce, code_challenge, code_challenge_method) that
\* are set at once.
MaxOptional == 2

\* ----------------------------------------------------------------- Option

None == <<>>

Some(v) == <<v>>

IsSome(o) == o # <<>>

IsNone(o) == o = <<>>

Unwrap(o) == o[1]

\* ---------------------------------------------------------------- strings

\* char::is_whitespace, on the characters of the model's alphabet.
IsWhitespace(c) == c = " "

RECURSIVE TrimStart(_)
\* str::trim_start
TrimStart(s) ==
    IF s = <<>> THEN <<>>
    ELSE IF IsWhitespace(Head(s)) THEN TrimStart(Tail(s))
    ELSE s

RECURSIVE TrimEnd(_)
\* str::trim_end
TrimEnd(s) ==
    IF s = <<>> THEN <<>>
    ELSE IF IsWhitespace(s[Len(s)]) THEN TrimEnd(SubSeq(s, 1, Len(s) - 1))
    ELSE s

\* str::trim
Trim(s) == TrimEnd(TrimStart(s))

RECURSIVE Join(_, _)
\* [String]::join(sep)
Join(strs, sep) ==
    IF strs = <<>> THEN <<>>
    ELSE IF Len(strs) = 1 THEN strs[1]
    ELSE strs[1] \o sep \o Join(Tail(strs), sep)

\* Vec::contains
Contains(list, x) == \E i \in 1..Len(list) : list[i] = x

\* Bytes that application/x-www-form-urlencoded leaves as they are.
Unreserved ==
    { "a", "b", "c", "d", "e", "f", "g", "h", "i", "j", "k", "l", "m",
      "n", "o", "p", "q", "r", "s", "t", "u", "v", "w", "x", "y", "z",
      "0", "1", "2", "3", "4", "5", "6", "7", "8", "9",
      "A", "B", "C", "D", "E", "F", "G", "H", "I", "J", "K", "L", "M",
      "N", "O", "P", "Q", "R", "S", "T", "U", "V", "W", "X", "Y", "Z",
      "*", "-", ".", "_" }

\* url::form_urlencoded::byte_serialize on one character: a space becomes
\* "+", an unreserved byte stays, any other byte is percent-encoded.
EncodeChar(c) ==
    IF c = " " THEN <<"+">>
    ELSE IF c \in Unreserved THEN <<c>>
    ELSE CASE c = ":" -> <<"%", "3", "A">>
           [] c = "/" -> <<"%", "2", "F">>
           [] c = "+" -> <<"%", "2", "B">>
           [] c = "&" -> <<"%", "2", "6">>
           [] c = "=" -> <<"%", "3", "D">>
           [] c = "%" -> <<"%", "2", "5">>

RECURSIVE FormEncode(_)
\* url::form_urlencoded::byte_serialize on a string.
FormEncode(s) ==
    IF s = <<>> THEN <<>>
    ELSE EncodeChar(Head(s)) \o FormEncode(Tail(s))

\* ------------------------------------------------------------- vocabulary

S_code == <<"c", "o", "d", "e">>

S_id_token == <<"i", "d", "_", "t", "o", "k", "e", "n">>

S_token == <<"t", "o", "k", "e", "n">>

S_openid == <<"o", "p", "e", "n", "i", "d">>

S_offline_access ==
    <<"o", "f", "f", "l", "i", "n", "e", "_", "a", "c", "c", "e", "s", "s">>

S_query == <<"q", "u", "e", "r", "y">>

S_fragment == <<"f", "r", "a", "g", "m", "e", "n", "t">>

S_form_post == <<"f", "o", "r", "m", "_", "p", "o", "s", "t">>

S_login == <<"l", "o", "g", "i", "n">>

\* enum ResponseType
ResponseType == {"Code", "IdToken", "Token"}

\* The enum's members in their Ord order.
ResponseTypeOrder == <<"Code", "IdToken", "Token">>

\* The position of a member in that order.
ResponseTypeRank(rt) == CHOOSE i \in DOMAIN ResponseTypeOrder : ResponseTypeOrder[i] = rt

\* BTreeSet<ResponseType>: the members as the sequence iter() yields, which
\* is ascending in Ord.  insert puts a new member at its place and leaves the
\* set alone when it already holds the member.
BTreeSet_insert(set, rt) ==
    IF \E i \in DOMAIN set : set[i] = rt THEN set
    ELSE LET below == SelectSeq(set, LAMBDA x : ResponseTypeRank(x) < ResponseTypeRank(rt))
             above == SelectSeq(set, LAMBDA x : ResponseTypeRank(x) > ResponseTypeRank(rt))
         IN  below \o <<rt>> \o above

RECURSIVE BTreeSet_extend(_, _)
\* BTreeSet::extend: insert the items in the order the iterator yields them.
BTreeSet_extend(set, items) ==
    IF items = <<>> THEN set
    ELSE BTreeSet_extend(BTreeSet_insert(set, Head(items)), Tail(items))

\* ResponseType::to_string
ResponseTypeToString(rt) ==
    CASE rt = "Code" -> S_code
      [] rt = "IdToken" -> S_id_token
      [] rt = "Token" -> S_token

\* enum ResponseMode
ResponseMode == {"Query", "Fragment", "FormPost"}

\* ResponseMode::as_ref
ResponseModeAsRef(rm) ==
    CASE rm = "Query" -> S_query
      [] rm = "Fragment" -> S_fragment
      [] rm = "FormPost" -> S_form_post

\* enum Prompt (the member the model uses)
Prompt == {"Login"}

\* Prompt::as_ref
PromptAsRef(p) ==
    CASE p = "Login" -> S_login

\* Uuid: a value is written as its (abbreviated) hyphenated lower-case form.
NilUuid == <<"0", "0">>

Uuid1 == <<"a", "1">>

\* Uuid::is_nil
UuidIsNil(u) == u = NilUuid

\* Uuid::to_string
UuidToString(u) == u

\* Uuid::try_parse: upper-case hex digits are accepted, anything that is not
\* a UUID is an error (None).
UuidTryParse(s) ==
    CASE s = <<"a", "1">> -> Some(Uuid1)
      [] s = <<"A", "1">> -> Some(Uuid1)
      [] s = <<"0", "0">> -> Some(NilUuid)
      [] OTHER -> None

\* Client id strings handed to the builder: a UUID, the same one in upper
\* case, the nil UUID, and a string that is no UUID.
ClientIdInputs == { <<"a", "1">>, <<"A", "1">>, <<"0", "0">>, <<"z">> }

\* Url values (Url::as_str of a parsed URL; never blank).
Url1 == <<"h", ":", "/", "/", "l", ":", "8", "/">>

Urls == { Url1 }

\* IntoUrl::into_url: the input parses to a Url or is an error (None).
IntoUrl(s) ==
    CASE s = <<"h", ":", "/", "/", "l", ":", "8">> -> Some(Url1)
      [] s = Url1 -> Some(Url1)
      [] OTHER -> None

RedirectUriInputs == { <<"h", ":", "/", "/", "l", ":", "8">>, <<"l">> }

\* Tenant ids handed to with_tenant.
TenantInputs == { "t1", "common" }

\* Authority::TenantId(tenant)
TenantId(tenant) == "TenantId(" \o tenant \o ")"

\* Authorities handed to with_authority.
AuthorityInputs ==
    { "Common", "Consumers", "Organizations", "AzureDirectoryFederatedServices" }
        \cup { TenantId(tenant) : tenant \in TenantInputs }

\* Scope strings handed to with_scope.
ScopeInputs ==
    { <<"r">>, S_openid, <<" ">> \o S_openid \o <<" ">> }

\* Values of the free-text optional parameters.
TextInputs == { <<"x", " ", "y">> }

\* ------------------------------------------------- errors (graph_error::AF)

\* AF::result(name): the required value `name` is missing.
AF_result(name) ==
    [ok |-> FALSE, kind |-> "MissingRequiredValue", name |-> name]

\* AF::msg_result(name, message): the value `name` is not valid here.
AF_msg_result(name) ==
    [ok |-> FALSE, kind |-> "InvalidValue", name |-> name]

\* ------------------------------------- OAuthSerializer (crate::auth)

\* OAuthParameter::alias of the parameters this request uses.
OAuthParameter ==
    { "client_id", "response_type", "redirect_uri", "scope", "response_mode",
      "state", "prompt", "login_hint", "domain_hint", "nonce",
      "code_challenge", "code_challenge_method", "authorization_url" }

\* OAuthSerializer::new
OAuthSerializer_new ==
    [params |-> [k \in OAuthParameter |-> None], scopes |-> <<>>]

\* The named setters (client_id, redirect_uri, response_type, ...): insert or
\* overwrite one entry.
Insert(ser, key, value) == [ser EXCEPT !.params[key] = Some(value)]

\* OAuthSerializer::extend_scopes
extend_scopes(ser, scope) == [ser EXCEPT !.scopes = @ \o scope]

\* OAuthSerializer::get: the scope entry is the space-joined scope list and is
\* absent while no scope was added.
Get(ser, key) ==
    IF key = "scope"
    THEN IF ser.scopes = <<>> THEN None ELSE Some(Join(ser.scopes, <<" ">>))
    ELSE ser.params[key]

\* AzureAuthorityHost::default (the public cloud) as the host of a URL.
AzurePublic ==
    <<"h", "t", "t", "p", "s", ":", "/", "/", "l", "o", "g", "i", "n", ".",
      "m", "i", "c", "r", "o", "s", "o", "f", "t", "o", "n", "l", "i", "n",
      "e", ".", "c", "o", "m">>

\* Authority::as_ref: the tenant segment of the endpoints of the default
\* cloud instance.
AuthorityAsRef(authority) ==
    CASE authority = "Common" -> <<"c", "o", "m", "m", "o", "n">>
      [] authority = "Consumers" -> <<"c", "o", "n", "s", "u", "m", "e", "r", "s">>
      [] authority = "Organizations" ->
             <<"o", "r", "g", "a", "n", "i", "z", "a", "t", "i", "o", "n", "s">>
      [] authority = "AzureDirectoryFederatedServices" -> <<"a", "d", "f", "s">>
      [] authority = "TenantId(t1)" -> <<"t", "1">>
      [] authority = "TenantId(common)" -> <<"c", "o", "m", "m", "o", "n">>

\* OAuthSerializer::authority: stores the authorization endpoint.
authority(ser, auth) ==
    Insert(ser, "authorization_url",
           AzurePublic \o <<"/">> \o AuthorityAsRef(auth)
               \o <<"/", "o", "a", "u", "t", "h", "2", "/", "v", "2", ".", "0",
                    "/", "a", "u", "t", "h", "o", "r", "i", "z", "e">>)

\* Serializer::append_pair: name and value are form-urlencoded (the names
\* hold unreserved characters only).
append_pair(pairs, key, value) ==
    Append(pairs, [key |-> key, value |-> FormEncode(value)])

RECURSIVE EncodeRequired(_, _, _)
\* The required loop of encode_query: every key in the given order; the first
\* absent one ends the encoding with MissingRequiredValue(key).
EncodeRequired(ser, keys, pairs) ==
    IF keys = <<>> THEN [ok |-> TRUE, pairs |-> pairs]
    ELSE IF IsNone(Get(ser, Head(keys))) THEN AF_result(Head(keys))
    ELSE EncodeRequired(ser, Tail(keys),
                        append_pair(pairs, Head(keys), Unwrap(Get(ser, Head(keys)))))

RECURSIVE EncodeOptional(_, _, _)
\* The optional loop of encode_query: the present keys in the given order.
EncodeOptional(ser, keys, pairs) ==
    IF keys = <<>> THEN pairs
    ELSE IF IsNone(Get(ser, Head(keys))) THEN EncodeOptional(ser, Tail(keys), pairs)
    ELSE EncodeOptional(ser, Tail(keys),
                        append_pair(pairs, Head(keys), Unwrap(Get(ser, Head(keys)))))

\* OAuthSerializer::encode_query(optional_fields, required_fields, encoder)
encode_query(ser, optional_fields, required_fields) ==
    LET req == EncodeRequired(ser, required_fields, <<>>)
    IN  IF ~req.ok THEN req
        ELSE [ok |-> TRUE, pairs |-> EncodeOptional(ser, optional_fields, req.pairs)]

\* ----------------------------- AuthCodeAuthorizationUrlParameters::
\*                                authorization_url_with_host

\* A slip: the members collected in descending order.
response_types_Reversed(p) ==
    [i \in 1..Len(p.response_type) |->
        ResponseTypeToString(p.response_type[Len(p.response_type) + 1 - i])]

\* self.response_type.iter().map(|s| s.to_string()).collect()
response_types(p) ==
    [i \in 1..Len(p.response_type) |-> ResponseTypeToString(p.response_type[i])]

\* BTreeSet::contains
BTreeSet_contains(set, rt) == \E i \in DOMAIN set : set[i] = rt

\* A slip: the empty-scope check reports the name of the check before it.
ValidationError_ScopeNamedClientId(p) ==
    IF IsSome(p.redirect_uri) /\ Trim(Unwrap(p.redirect_uri)) = <<>>
    THEN Some(AF_result("redirect_uri"))
    ELSE IF UuidToString(p.client_id) = <<>> \/ UuidIsNil(p.client_id)
    THEN Some(AF_result("client_id"))
    ELSE IF p.scope = <<>>
    THEN Some(AF_result("client_id"))
    ELSE IF Contains(p.scope, S_openid)
    THEN Some(AF_msg_result("openid"))
    ELSE None

\* The checks made before anything is encoded: Some(error) for the first one
\* that fails, None when all pass.  A redirect_uri that is None passes here.
ValidationError(p) ==
    IF IsSome(p.redirect_uri) /\ Trim(Unwrap(p.redirect_uri)) = <<>>
    THEN Some(AF_result("redirect_uri"))
    ELSE IF UuidToString(p.client_id) = <<>> \/ UuidIsNil(p.client_id)
    THEN Some(AF_result("client_id"))
    ELSE IF p.scope = <<>>
    THEN Some(AF_result("scope"))
    ELSE IF Contains(p.scope, S_openid)
    THEN Some(AF_msg_result("openid"))
    ELSE None

\* A slip: the response_type entry is always "code".
ResponseTypeValue_CodeOnly(p) == S_code

\* The response_type entry: "code" for an empty set or a blank join, else the
\* members joined by a space.
ResponseTypeValue(p) ==
    IF response_types(p) = <<>> THEN S_code
    ELSE LET response_type == Trim(Join(response_types(p), <<" ">>))
         IN  IF response_type = <<>> THEN S_code ELSE response_type

\* A slip: only an unset response_mode is replaced, an explicit Query is kept.
ForcesFragment_OnlyWhenUnset(p) == IsNone(p.response_mode)

\* A slip: only an explicit Query is replaced, an unset response_mode stays unset.
ForcesFragment_OnlyQuery(p) == p.response_mode = Some("Query")

\* A slip: every response_mode is replaced once IdToken is requested.
ForcesFragment_Always(p) == TRUE

\* With IdToken requested: whether Fragment replaces the response_mode.
ForcesFragment(p) == IsNone(p.response_mode) \/ p.response_mode = Some("Query")

\* The response_mode entry, None when none is written.
ResponseModeValue(p) ==
    IF response_types(p) = <<>>
    THEN IF IsSome(p.response_mode)
         THEN Some(ResponseModeAsRef(Unwrap(p.response_mode)))
         ELSE None
    ELSE IF BTreeSet_contains(p.response_type, "IdToken")
    THEN IF ForcesFragment(p)
         THEN Some(ResponseModeAsRef("Fragment"))
         ELSE IF IsSome(p.response_mode)
         THEN Some(ResponseModeAsRef(Unwrap(p.response_mode)))
         ELSE None
    ELSE IF IsSome(p.response_mode)
         THEN Some(ResponseModeAsRef(Unwrap(p.response_mode)))
         ELSE None

\* Writes value under key when it is Some.
InsertIfSome(ser, key, opt) ==
    IF IsSome(opt) THEN Insert(ser, key, Unwrap(opt)) ELSE ser

\* The serializer as it stands when encode_query is called.
FilledSerializer(p) ==
    LET s1 == InsertIfSome(OAuthSerializer_new, "redirect_uri", p.redirect_uri)
        s2 == authority(extend_scopes(
                  Insert(s1, "client_id", UuidToString(p.client_id)), p.scope),
                  p.authority)
        s3 == Insert(s2, "response_type", ResponseTypeValue(p))
        s4 == InsertIfSome(s3, "response_mode", ResponseModeValue(p))
        s5 == InsertIfSome(s4, "state", p.state)
        s6 == InsertIfSome(s5, "prompt",
                  IF IsSome(p.prompt) THEN Some(PromptAsRef(Unwrap(p.prompt))) ELSE None)
        s7 == InsertIfSome(s6, "domain_hint", p.domain_hint)
        s8 == InsertIfSome(s7, "login_hint", p.login_hint)
        s9 == InsertIfSome(s8, "nonce", p.nonce)
        s10 == InsertIfSome(s9, "code_challenge", p.code_challenge)
    IN  InsertIfSome(s10, "code_challenge_method", p.code_challenge_method)

\* A slip: login_hint and domain_hint listed in the order their setters run.
OptionalFields_HintsSwapped ==
    << "response_mode", "state", "prompt", "domain_hint", "login_hint",
       "nonce", "code_challenge", "code_challenge_method" >>

\* The first list handed to encode_query.
OptionalFields ==
    << "response_mode", "state", "prompt", "login_hint", "domain_hint",
       "nonce", "code_challenge", "code_challenge_method" >>

\* A slip: scope left out of the second list.
RequiredFields_NoScope == << "client_id", "response_type", "redirect_uri" >>

\* A slip: redirect_uri left out of the second list.
RequiredFields_NoRedirectUri == << "client_id", "response_type", "scope" >>

\* The second list handed to encode_query.
RequiredFields == << "client_id", "response_type", "redirect_uri", "scope" >>

\* authorization_url_with_host: an error, or the URL as its endpoint and the
\* pairs of its query in the order they were appended.
authorization_url_with_host(p) ==
    IF IsSome(ValidationError(p)) THEN Unwrap(ValidationError(p))
    ELSE LET serializer == FilledSerializer(p)
             encoded == encode_query(serializer, OptionalFields, RequiredFields)
         IN  IF ~encoded.ok THEN encoded
             ELSE [ok |-> TRUE,
                   base |-> Unwrap(Get(serializer, "authorization_url")),
                   query |-> encoded.pairs]

\* authorization_url / url: the default cloud instance.
authorization_url(p) == authorization_url_with_host(p)

\* -------------------------------------------- AuthorizationCodeCredential
\*                    (identity/credentials/authorization_code_credential.rs)

\* Longest scope list the credential's serializer collects over repeated
\* form() calls.
MaxFormScopes == 2

\* Most POSTs one behaviour sends.
MaxRequests == 2

S_authorization_code ==
    <<"a", "u", "t", "h", "o", "r", "i", "z", "a", "t", "i", "o", "n",
      "_", "c", "o", "d", "e">>

S_refresh_token ==
    <<"r", "e", "f", "r", "e", "s", "h", "_", "t", "o", "k", "e", "n">>

\* The entries of enum OAuthCredential this credential uses.
OAuthCredential ==
    { "ClientId", "ClientSecret", "AuthorizationCode", "RefreshToken",
      "RedirectUri", "GrantType", "Scope", "CodeVerifier",
      "AccessTokenUrl", "RefreshTokenUrl" }

\* OAuthCredential::alias: the canonical name of a parameter, the name an
\* error carries.
OAuthCredential_alias(oac) ==
    CASE oac = "ClientId" -> "client_id"
      [] oac = "ClientSecret" -> "client_secret"
      [] oac = "AuthorizationCode" -> "authorization_code"
      [] oac = "RefreshToken" -> "refresh_token"
      [] oac = "RedirectUri" -> "redirect_uri"
      [] oac = "GrantType" -> "grant_type"
      [] oac = "Scope" -> "scope"
      [] oac = "CodeVerifier" -> "code_verifier"
      [] oac = "AccessTokenUrl" -> "access_token_url"
      [] oac = "RefreshTokenUrl" -> "refresh_token_url"

\* The name of a parameter as a field of the token request body: the
\* authorization code travels as "code".
FormFieldName(oac) ==
    IF oac = "AuthorizationCode" THEN "code" ELSE OAuthCredential_alias(oac)

\* format!("{} or {}", a, b)
FormatOr(a, b) == a \o " or " \o b

\* AuthorizationFailure::required_value_result(name)
AuthorizationFailure_required_value_result(name) ==
    [ok |-> FALSE, kind |-> "MissingRequiredValue", name |-> name,
     message |-> None]

\* AuthorizationFailure::required_value_msg_result(name, message): the same
\* failure with a message for the reader.
AuthorizationFailure_required_value_msg_result(name, message) ==
    [ok |-> FALSE, kind |-> "MissingRequiredValue", name |-> name,
     message |-> message]

\* The two messages form() hands over.
BothSetMessage ==
    Some("Authorization code and refresh token should not be set at the same time - Internal Error")

EitherRequiredMessage ==
    Some("Either authorization code or refresh token is required")

\* OAuth::new
OAuth_new == [params |-> [k \in OAuthCredential |-> None], scopes |-> <<>>]

\* The token endpoint of the default cloud instance for an authority.
TokenEndpoint(auth) ==
    AzurePublic \o <<"/">> \o AuthorityAsRef(auth)
        \o <<"/", "o", "a", "u", "t", "h", "2", "/", "v", "2", ".", "0",
             "/", "t", "o", "k", "e", "n">>

\* OAuth::authority: stores the endpoints of the authority; the access token
\* and the refresh token are redeemed at the same token endpoint.
OAuth_authority(ser, auth) ==
    Insert(Insert(ser, "AccessTokenUrl", TokenEndpoint(auth)),
           "RefreshTokenUrl", TokenEndpoint(auth))

\* FormCredential::Required / FormCredential::NotRequired
Required(oac) == [required |-> TRUE, oac |-> oac]

NotRequired(oac) == [required |-> FALSE, oac |-> oac]

\* The value the serializer holds for an entry; the scope entry is the
\* space-joined scope list.
OAuth_get(ser, oac) == Get(ser, IF oac = "Scope" THEN "scope" ELSE oac)

RECURSIVE FormFields(_, _, _)
\* The loop of authorization_form over its field list: a required field with
\* no value ends it with MissingRequiredValue(name); a field with a value is
\* put into the map under its body name; a field that is not required and
\* has no value is skipped.
FormFields(ser, fields, map) ==
    IF fields = <<>> THEN [ok |-> TRUE, form |-> map]
    ELSE LET field == Head(fields)
             value == OAuth_get(ser, field.oac)
         IN  IF IsNone(value)
             THEN IF field.required
                  THEN AuthorizationFailure_required_value_result(
                           OAuthCredential_alias(field.oac))
                  ELSE FormFields(ser, Tail(fields), map)
             ELSE FormFields(ser, Tail(fields),
                             (FormFieldName(field.oac) :> Unwrap(value)) @@ map)

\* OAuth::authorization_form(fields): Ok(HashMap<String, String>) or the
\* error of the first required field without a value.
authorization_form(ser, fields) == FormFields(ser, fields, <<>>)

\* A slip: the refresh branch also asks for the redirect_uri.
RefreshTokenFields_WithRedirectUri ==
    << Required("ClientId"), Required("ClientSecret"),
       Required("RedirectUri"), Required("RefreshToken"),
       Required("GrantType"), NotRequired("Scope") >>

\* A slip: the refresh branch also lists the authorization code.
RefreshTokenFields_WithCode ==
    << Required("ClientId"), Required("ClientSecret"),
       Required("RefreshToken"), Required("GrantType"),
       NotRequired("Scope"), NotRequired("AuthorizationCode") >>

\* The field list of the refresh_token branch.
RefreshTokenFields ==
    << Required("ClientId"), Required("ClientSecret"),
       Required("RefreshToken"), Required("GrantType"),
       NotRequired("Scope") >>

\* A slip: code_verifier left out of the list.
AuthorizationCodeFields_NoCodeVerifier ==
    << Required("ClientId"), Required("ClientSecret"),
       Required("RedirectUri"), Required("AuthorizationCode"),
       Required("GrantType"), NotRequired("Scope") >>

\* The field list of the authorization_code branch.
AuthorizationCodeFields ==
    << Required("ClientId"), Required("ClientSecret"),
       Required("RedirectUri"), Required("AuthorizationCode"),
       Required("GrantType"), NotRequired("Scope"),
       NotRequired("CodeVerifier") >>

\* The result of a &mut self method: what it returns and the credential as
\* the call leaves it.
Returns(ret, self) == [ret |-> ret, self |-> self]

\* A slip: client_secret checked before client_id.
BlankCredentialField_SecretFirst(self) ==
    IF Trim(self.client_secret) = <<>> THEN Some("ClientSecret")
    ELSE IF Trim(self.client_id) = <<>> THEN Some("ClientId")
    ELSE None

\* The checks of client_id and client_secret: the first blank one, if any.
BlankCredentialField(self) ==
    IF Trim(self.client_id) = <<>> THEN Some("ClientId")
    ELSE IF Trim(self.client_secret) = <<>> THEN Some("ClientSecret")
    ELSE None

\* refresh_token.trim().is_empty() / authorization_code.trim().is_empty()
BlankToken(token) == Trim(token) = <<>>

\* A slip: neither value set is taken for "nothing to send" and reported on
\* the authorization code alone.
NeitherSetName_CodeOnly == OAuthCredential_alias("AuthorizationCode")

\* The name form() reports when neither value is set.
NeitherSetName ==
    FormatOr(OAuthCredential_alias("AuthorizationCode"),
             OAuthCredential_alias("RefreshToken"))

\* AuthorizationCodeCredential::form
form(self) ==
    IF IsSome(self.authorization_code) /\ IsSome(self.refresh_token)
    THEN Returns(AuthorizationFailure_required_value_msg_result(
                     FormatOr(OAuthCredential_alias("AuthorizationCode"),
                              OAuthCredential_alias("RefreshToken")),
                     BothSetMessage),
                 self)
    ELSE IF IsSome(BlankCredentialField(self))
    THEN Returns(AuthorizationFailure_required_value_result(
                     OAuthCredential_alias(Unwrap(BlankCredentialField(self)))),
                 self)
    ELSE LET s1 == extend_scopes(
                       Insert(Insert(self.serializer,
                                     "ClientId", self.client_id),
                              "ClientSecret", self.client_secret),
                       self.scope)
         IN  IF IsSome(self.refresh_token)
             THEN IF BlankToken(Unwrap(self.refresh_token))
                  THEN Returns(AuthorizationFailure_required_value_msg_result(
                                   OAuthCredential_alias("RefreshToken"),
                                   EitherRequiredMessage),
                               [self EXCEPT !.serializer = s1])
                  ELSE LET s2 == Insert(Insert(s1, "GrantType", S_refresh_token),
                                        "RefreshToken", Unwrap(self.refresh_token))
                       IN  Returns(authorization_form(s2, RefreshTokenFields),
                                   [self EXCEPT !.serializer = s2])
             ELSE IF IsSome(self.authorization_code)
             THEN IF BlankToken(Unwrap(self.authorization_code))
                  THEN Returns(AuthorizationFailure_required_value_msg_result(
                                   OAuthCredential_alias("AuthorizationCode"),
                                   EitherRequiredMessage),
                               [self EXCEPT !.serializer = s1])
                  ELSE IF Trim(self.redirect_uri) = <<>>
                  THEN Returns(AuthorizationFailure_required_value_result(
                                   OAuthCredential_alias("RedirectUri")),
                               [self EXCEPT !.serializer = s1])
                  ELSE LET s2 == Insert(Insert(Insert(s1,
                                     "AuthorizationCode", Unwrap(self.authorization_code)),
                                     "GrantType", S_authorization_code),
                                     "RedirectUri", self.redirect_uri)
                           s3 == InsertIfSome(s2, "CodeVerifier", self.code_verifier)
                       IN  Returns(authorization_form(s3, AuthorizationCodeFields),
                                   [self EXCEPT !.serializer = s3])
             ELSE Returns(AuthorizationFailure_required_value_msg_result(
                              NeitherSetName, EitherRequiredMessage),
                          [self EXCEPT !.serializer = s1])

\* A slip: no pair once the credential redeems a refresh token.
basic_auth_CodeModeOnly(self) ==
    IF IsSome(self.refresh_token) THEN None
    ELSE Some(<<self.client_id, self.client_secret>>)

\* AuthorizationCodeCredential::basic_auth
basic_auth(self) == Some(<<self.client_id, self.client_secret>>)

\* Url::parse of an endpoint the serializer holds.
Url_parse(s) == [ok |-> TRUE, url |-> s]

\* A slip: the endpoint is read without storing the authority's endpoints
\* first, so the serializer's entry of an earlier call, or none, is returned.
uri_NoAuthority(self) ==
    LET oac == IF IsNone(self.refresh_token) THEN "AccessTokenUrl"
               ELSE "RefreshTokenUrl"
    IN  IF IsNone(OAuth_get(self.serializer, oac))
        THEN Returns(AuthorizationFailure_required_value_msg_result(
                         OAuthCredential_alias(oac), Some("Internal Error")),
                     self)
        ELSE Returns(Url_parse(Unwrap(OAuth_get(self.serializer, oac))), self)

\* AuthorizationCodeCredential::uri
uri(self) ==
    LET s1 == OAuth_authority(self.serializer, self.authority)
        oac == IF IsNone(self.refresh_token) THEN "AccessTokenUrl"
               ELSE "RefreshTokenUrl"
    IN  IF IsNone(OAuth_get(s1, oac))
        THEN Returns(AuthorizationFailure_required_value_msg_result(
                         OAuthCredential_alias(oac), Some("Internal Error")),
                     [self EXCEPT !.serializer = s1])
        ELSE Returns(Url_parse(Unwrap(OAuth_get(s1, oac))),
                     [self EXCEPT !.serializer = s1])

\* AuthorizationCodeCredential::new
AuthorizationCodeCredential_new(client_id, client_secret, authorization_code, redirect_uri) ==
    [authorization_code |-> Some(authorization_code),
     refresh_token |-> None,
     client_id |-> client_id,
     client_secret |-> client_secret,
     redirect_uri |-> redirect_uri,
     scope |-> <<>>,
     authority |-> "Common",
     code_verifier |-> None,
     serializer |-> OAuth_new]

\* AuthorizationCodeCredentialBuilder::new
AuthorizationCodeCredentialBuilder_new ==
    [authorization_code |-> None,
     refresh_token |-> None,
     client_id |-> <<>>,
     client_secret |-> <<>>,
     redirect_uri |-> <<>>,
     scope |-> <<>>,
     authority |-> "Common",
     code_verifier |-> None,
     serializer |-> OAuth_new]

\* --------------------------------- TokenRequest (credentials/token_request.rs)

\* What the token endpoint, or the network on the way to it, answers to a
\* POST: a response (of whatever status) or a transport error.
SendResults ==
    { [ok |-> TRUE, status |-> 200],
      [ok |-> FALSE, kind |-> "UpstreamHttpError", name |-> "send"] }

\* ClientBuilder::build failed.
ClientBuildError == [ok |-> FALSE, kind |-> "UpstreamHttpError", name |-> "build"]

\* http_client.post(uri).basic_auth(client_identifier, Some(secret)).form(&form)
PostWithBasicAuth(client, target, pair, body) ==
    [client |-> client, method |-> "POST", uri |-> target,
     basic_auth |-> Some(pair), form |-> body]

\* http_client.post(uri).form(&form)
Post(client, target, body) ==
    [client |-> client, method |-> "POST", uri |-> target,
     basic_auth |-> None, form |-> body]

\* A slip: the pair is asked for and then left out of the request.
AsyncRequest_NoBasicAuth(target, body, pair) == Post("async", target, body)

\* The request get_token builds once uri, form and the client are there.
BlockingRequest(target, body, pair) ==
    IF IsSome(pair)
    THEN PostWithBasicAuth("blocking", target, Unwrap(pair), body)
    ELSE Post("blocking", target, body)

\* The request get_token_async builds once uri, form and the client are there.
AsyncRequest(target, body, pair) ==
    IF IsSome(pair)
    THEN PostWithBasicAuth("async", target, Unwrap(pair), body)
    ELSE Post("async", target, body)

\* What one call did: the value it returned and the requests it sent.
Call(ret, sent) == [ret |-> ret, sent |-> sent]

\* A slip: the request is sent again after a transport error.
Sent_RetryOnError(request, answer) ==
    IF answer.ok THEN <<request>> ELSE <<request, request>>

\* send(): the request goes out once, whatever the answer.
Sent(request, answer) == <<request>>

\* TokenRequest::get_token, given what self.uri(), self.form() and
\* self.basic_auth() return, whether the client builds and what send() meets.
TokenRequest_get_token(uri_ret, form_ret, pair, built, answer) ==
    IF ~uri_ret.ok THEN Call(uri_ret, <<>>)
    ELSE IF ~form_ret.ok THEN Call(form_ret, <<>>)
    ELSE IF ~built THEN Call(ClientBuildError, <<>>)
    ELSE Call(answer, Sent(BlockingRequest(uri_ret.url, form_ret.form, pair), answer))

\* TokenRequest::get_token_async, likewise.
TokenRequest_get_token_async(uri_ret, form_ret, pair, built, answer) ==
    IF ~uri_ret.ok THEN Call(uri_ret, <<>>)
    ELSE IF ~form_ret.ok THEN Call(form_ret, <<>>)
    ELSE IF ~built THEN Call(ClientBuildError, <<>>)
    ELSE Call(answer, Sent(AsyncRequest(uri_ret.url, form_ret.form, pair), answer))

\* An implementor of AuthorizationSerializer other than the authorization
\* code credential, given as what its uri(), form() and basic_auth() return.
Implementors ==
    [uri : { Url_parse(TokenEndpoint("Common")),
             [ok |-> FALSE, kind |-> "MalformedUrl", name |-> "uri"] },
     form : { [ok |-> TRUE, form |-> ("grant_type" :> <<"g">>)],
              AuthorizationFailure_required_value_result("client_id") },
     basic_auth : { None, Some(<<<<"i">>, <<"s">>>>) }]

\* The part of the state the authorization URL builder never touches, as it
\* is while only that builder is in use.
TokenRequestIdle ==
    /\ implementor = [uri |-> Url_parse(TokenEndpoint("Common")),
                      form |-> [ok |-> TRUE, form |-> ("grant_type" :> <<"g">>)],
                      basic_auth |-> None]
    /\ network = <<>>
    /\ suspended = {}

\* No call on the object is suspended: the future of an async call holds the
\* &mut borrow of its object until it is ready or dropped.
Free(self) == \A future \in suspended : future.self # self

\* ConfidentialClient::new / ConfidentialClient::credential
ConfidentialClient_new(value) == [credential |-> value]

\* ConfidentialClientApplication::credential: the boxed credential and an
\* HTTP client of the application's own, built with build().unwrap(); None
\* stands for the panic of that unwrap when the client cannot be built.
ConfidentialClientApplication_credential(value, built) ==
    IF built THEN Some([http_client |-> "reqwest::Client", credential |-> value])
    ELSE None

\* No facade in use: one that wraps the new builder's credential.
FacadeIdle == facade = ConfidentialClient_new(AuthorizationCodeCredentialBuilder_new)

\* No interactive authentication in progress: no listener thread, no channel
\* traffic.
NoListener == [spawned |-> 0, state |-> "none", sent |-> <<>>]

InteractiveIdle ==
    /\ listener = NoListener
    /\ channel = <<>>

CredentialIdle ==
    /\ credential = AuthorizationCodeCredentialBuilder_new
    /\ TokenRequestIdle
    /\ FacadeIdle

\* ------------------------------------------------------------------ state

\* The seven optional parameters other than response_mode.
OptionalTextFields ==
    { "nonce", "state", "prompt", "domain_hint", "login_hint",
      "code_challenge", "code_challenge_method" }

\* How many of them are set.
OptionalCount(p) == Cardinality({f \in OptionalTextFields : IsSome(p[f])})

\* Sequences over S of length at most n.
BoundedSeq(S, n) == UNION {[1..k -> S] : k \in 0..n}

OptionOf(S) == {None} \cup {Some(v) : v \in S}

\* AppConfig::new_with_client_id: the client id parsed as a UUID, nil when it
\* does not parse; no redirect_uri; the default authority.
AppConfig_new_with_client_id(client_id) ==
    [client_id |-> IF IsSome(UuidTryParse(client_id))
                   THEN Unwrap(UuidTryParse(client_id)) ELSE NilUuid,
     redirect_uri |-> None,
     authority |-> "Common"]

\* AuthCodeAuthorizationUrlParameterBuilder::new
Builder_new(client_id) ==
    LET app_config == AppConfig_new_with_client_id(client_id)
    IN  [client_id |-> app_config.client_id,
         redirect_uri |-> app_config.redirect_uri,
         authority |-> app_config.authority,
         response_mode |-> None,
         response_type |-> BTreeSet_insert(<<>>, "Code"),
         nonce |-> None,
         state |-> None,
         scope |-> <<>>,
         prompt |-> None,
         domain_hint |-> None,
         login_hint |-> None,
         code_challenge |-> None,
         code_challenge_method |-> None]

\* The builder after new(client_id); nothing returned yet.
Init ==
    /\ \E client_id \in ClientIdInputs : parameters = Builder_new(client_id)
    /\ CredentialIdle
    /\ InteractiveIdle
    /\ pc = "building"
    /\ result = None

\* A setter returned: the builder holds p and the last returned URL is gone.
Set(p) ==
    /\ pc # "panicked"
    /\ Len(p.scope) <= MaxScope
    /\ OptionalCount(p) <= MaxOptional
    /\ parameters' = p
    /\ pc' = "building"
    /\ result' = None
    /\ UNCHANGED <<credential, implementor, network, facade, listener, channel, suspended>>

\* A setter panicked (unwrap / expect on an Err).
Panic ==
    /\ pc # "panicked"
    /\ pc' = "panicked"
    /\ result' = None
    /\ UNCHANGED <<parameters, credential, implementor, network, facade, listener, channel, suspended>>

with_redirect_uri ==
    \E redirect_uri \in RedirectUriInputs :
        IF IsSome(IntoUrl(redirect_uri))
        THEN Set([parameters EXCEPT !.redirect_uri = Some(Unwrap(IntoUrl(redirect_uri)))])
        ELSE Panic

with_client_id ==
    \E client_id \in ClientIdInputs :
        IF IsSome(UuidTryParse(client_id))
        THEN Set([parameters EXCEPT !.client_id = Unwrap(UuidTryParse(client_id))])
        ELSE Panic

\* The response types a caller passes, in the order passed.
ResponseTypeInputs ==
    { s \in BoundedSeq(ResponseType, Cardinality(ResponseType)) :
        /\ s # <<>>
        /\ \A i, j \in DOMAIN s : i # j => s[i] # s[j] }

\* A slip: the passed response types replace the set.
with_response_type_Replaces ==
    \E response_type \in ResponseTypeInputs :
        Set([parameters EXCEPT !.response_type = BTreeSet_extend(<<>>, response_type)])

\* The tenant id and the authorities handed to the URL builder.
BuilderTenantInputs == { "t1" }

BuilderAuthorityInputs == { "Common", "Consumers" }

\* with_tenant: Authority::TenantId(tenant)
with_tenant ==
    \E tenant \in BuilderTenantInputs :
        Set([parameters EXCEPT !.authority = TenantId(tenant)])

with_authority ==
    \E auth \in BuilderAuthorityInputs :
        Set([parameters EXCEPT !.authority = auth])

with_response_type ==
    \E response_type \in ResponseTypeInputs :
        Set([parameters EXCEPT !.response_type = BTreeSet_extend(@, response_type)])

with_response_mode ==
    \E response_mode \in ResponseMode :
        Set([parameters EXCEPT !.response_mode = Some(response_mode)])

with_nonce ==
    \E nonce \in TextInputs : Set([parameters EXCEPT !.nonce = Some(nonce)])

\* secure_random_32 succeeded with some value.
with_nonce_generated ==
    \E nonce \in { <<"n", "9">> } : Set([parameters EXCEPT !.nonce = Some(nonce)])

with_state ==
    \E state \in TextInputs : Set([parameters EXCEPT !.state = Some(state)])

\* The scope lists handed to one with_scope call: one or two strings (a longer
\* list extends the scope as repeated calls do).
ScopeArguments ==
    { <<a>> : a \in ScopeInputs } \cup { <<a, b>> : a \in ScopeInputs, b \in ScopeInputs }

\* A slip: the strings are stored as passed.
TrimmedScope_NoTrim(scope) == scope

\* scope.into_iter().map(|s| s.to_string()).map(|s| s.trim().to_owned())
TrimmedScope(scope) == [i \in 1..Len(scope) |-> Trim(scope[i])]

with_scope ==
    \E scope \in ScopeArguments :
        Set([parameters EXCEPT !.scope = @ \o TrimmedScope(scope)])

with_offline_access ==
    Set([parameters EXCEPT !.scope = @ \o <<S_offline_access>>])

with_prompt ==
    \E prompt \in Prompt : Set([parameters EXCEPT !.prompt = Some(prompt)])

with_domain_hint ==
    \E domain_hint \in TextInputs :
        Set([parameters EXCEPT !.domain_hint = Some(domain_hint)])

with_login_hint ==
    \E login_hint \in TextInputs :
        Set([parameters EXCEPT !.login_hint = Some(login_hint)])

with_code_challenge ==
    \E code_challenge \in TextInputs :
        Set([parameters EXCEPT !.code_challenge = Some(code_challenge)])

with_code_challenge_method ==
    \E code_challenge_method \in { <<"S", "2", "5", "6">> } :
        Set([parameters EXCEPT !.code_challenge_method = Some(code_challenge_method)])

with_pkce ==
    \E code_challenge \in TextInputs :
        Set([parameters EXCEPT !.code_challenge = Some(code_challenge),
                               !.code_challenge_method = Some(<<"S", "2", "5", "6">>)])

\* Builder::url / AuthCodeAuthorizationUrlParameters::url on build()'s clone.
url ==
    /\ pc # "panicked"
    /\ result' = Some(authorization_url(parameters))
    /\ pc' = "returned"
    /\ UNCHANGED <<parameters, credential, implementor, network, facade, listener, channel, suspended>>

Next ==
    \/ with_redirect_uri
    \/ with_client_id
    \/ with_tenant
    \/ with_authority
    \/ with_response_type
    \/ with_response_mode
    \/ with_nonce
    \/ with_nonce_generated
    \/ with_state
    \/ with_scope
    \/ with_offline_access
    \/ with_prompt
    \/ with_domain_hint
    \/ with_login_hint
    \/ with_code_challenge
    \/ with_code_challenge_method
    \/ with_pkce
    \/ url

Spec == Init /\ [][Next]_vars

\* ----------------------- every AuthCodeAuthorizationUrlParameters value

\* The values of the struct (its fields are pub(crate)), within the bounds.
ScopeValues == { <<"r">>, <<"w">>, S_openid }

AllParameters ==
    { p \in [client_id : {NilUuid, Uuid1},
             redirect_uri : OptionOf(Urls),
             authority : {"Common"},
             response_mode : OptionOf(ResponseMode),
             response_type : {BTreeSet_extend(<<>>, s) : s \in ResponseTypeInputs \cup {<<>>}},
             nonce : OptionOf(TextInputs),
             state : OptionOf(TextInputs),
             scope : BoundedSeq(ScopeValues, MaxScope),
             prompt : OptionOf({"Login"}),
             domain_hint : OptionOf(TextInputs),
             login_hint : OptionOf(TextInputs),
             code_challenge : OptionOf(TextInputs),
             code_challenge_method : OptionOf({ <<"S", "2", "5", "6">> })] :
        OptionalCount(p) <= MaxOptional }

InitParams ==
    /\ parameters \in AllParameters
    /\ CredentialIdle
    /\ InteractiveIdle
    /\ pc = "building"
    /\ result = None

\* with_response_type and authorization_url() on the value.
NextParams ==
    \/ with_response_type
    \/ url

SpecParams == InitParams /\ [][NextParams]_vars

\* ------------- the requests the builder can hold, for the query round trip

\* Scope strings as with_scope stores them (trimmed): plain ones and one with
\* a space inside.
StoredScopeValues == { <<"r">>, <<"x", " ", "y">>, S_offline_access }

\* Parameters the builder can hold: response_type contains Code, every scope
\* is trimmed, the optional text parameters are unset.
BuiltParameters ==
    { [Builder_new(client_id) EXCEPT !.authority = auth,
                                     !.redirect_uri = redirect_uri,
                                     !.response_type = BTreeSet_extend(@, response_type),
                                     !.response_mode = response_mode,
                                     !.scope = scope] :
        client_id \in { <<"a", "1">>, <<"0", "0">> },
        auth \in {"Common", TenantId("t1")},
        redirect_uri \in OptionOf(Urls),
        response_type \in ResponseTypeInputs,
        response_mode \in OptionOf(ResponseMode),
        scope \in BoundedSeq(StoredScopeValues, MaxScope) }

\* A request the builder holds, or the same request with an empty
\* response_type set (the field is pub(crate); authorization_url() writes
\* response_type=code for it).
InitBuilt ==
    /\ parameters \in BuiltParameters
                          \cup { [p EXCEPT !.response_type = <<>>] : p \in BuiltParameters }
    /\ CredentialIdle
    /\ InteractiveIdle
    /\ pc = "building"
    /\ result = None

\* with_response_type and url() on the built request.
SpecBuilt == InitBuilt /\ [][NextParams]_vars

\* ------------------- AuthorizationCodeCredentialBuilder and the credential

\* Strings handed to the setters: a whitespace-only one and a usable one.
ClientIdValues == { <<" ">>, <<"i">> }

ClientSecretValues == { <<" ">>, <<"s">> }

AuthorizationCodeValues == { <<" ">>, <<"c">> }

RefreshTokenValues == { <<" ">>, <<"t">> }

RedirectUriValues == { <<" ">>, <<"u">> }

CodeVerifierValues == { <<"v">> }

\* Scope lists handed to with_scope.
CredentialScopeValues == { <<>>, << <<"r">> >> }

\* The part of the state the credential never touches.
UrlIdle ==
    /\ parameters = Builder_new(<<"a", "1">>)
    /\ InteractiveIdle

\* The builder after AuthorizationCodeCredential::builder(), or a credential
\* after AuthorizationCodeCredential::new(..).
InitCredential ==
    /\ UrlIdle
    /\ FacadeIdle
    /\ TokenRequestIdle
    /\ result = None
    /\ \/ /\ pc = "builder"
          /\ credential = AuthorizationCodeCredentialBuilder_new
       \/ /\ pc = "credential"
          /\ \E client_id \in ClientIdValues \cup {<<>>},
                client_secret \in ClientSecretValues,
                authorization_code \in AuthorizationCodeValues,
                redirect_uri \in RedirectUriValues :
                 credential = AuthorizationCodeCredential_new(
                                  client_id, client_secret,
                                  authorization_code, redirect_uri)

\* The positions at which the program holds a built credential: just built
\* or changed, after form() returned, after basic_auth() returned, after
\* uri() returned.
CredentialStages == {"credential", "formed", "asked", "located"}

\* A builder setter returned: the builder holds c.
BuilderSet(c) ==
    /\ pc = "builder"
    /\ credential' = c
    /\ UNCHANGED <<parameters, implementor, network, pc, result, facade, listener, channel, suspended>>

\* A slip: the refresh token is kept when an authorization code is set.
SetAuthorizationCode_KeepsRefreshToken(self, authorization_code) ==
    [self EXCEPT !.authorization_code = Some(authorization_code)]

\* The two assignments of the builder's with_authorization_code.
SetAuthorizationCode(self, authorization_code) ==
    [self EXCEPT !.authorization_code = Some(authorization_code),
                 !.refresh_token = None]

\* The two assignments of with_refresh_token (the builder's and the
\* credential's).
SetRefreshToken(self, refresh_token) ==
    [self EXCEPT !.authorization_code = None,
                 !.refresh_token = Some(refresh_token)]

builder_with_authorization_code ==
    \E authorization_code \in AuthorizationCodeValues :
        BuilderSet(SetAuthorizationCode(credential, authorization_code))

builder_with_refresh_token ==
    \E refresh_token \in RefreshTokenValues :
        BuilderSet(SetRefreshToken(credential, refresh_token))

builder_with_redirect_uri ==
    \E redirect_uri \in RedirectUriValues :
        BuilderSet([credential EXCEPT !.redirect_uri = redirect_uri])

builder_with_client_id ==
    \E client_id \in ClientIdValues :
        BuilderSet([credential EXCEPT !.client_id = client_id])

builder_with_client_secret ==
    \E client_secret \in ClientSecretValues :
        BuilderSet([credential EXCEPT !.client_secret = client_secret])

\* with_code_verifier, and with_proof_key_for_code_exchange which calls it.
builder_with_code_verifier ==
    \E code_verifier \in CodeVerifierValues :
        BuilderSet([credential EXCEPT !.code_verifier = Some(code_verifier)])

builder_with_scope ==
    \E scope \in CredentialScopeValues :
        BuilderSet([credential EXCEPT !.scope = scope])

\* build(): the program goes on with the clone.
builder_build ==
    /\ pc = "builder"
    /\ pc' = "credential"
    /\ UNCHANGED <<parameters, credential, implementor, network, result, facade, listener, channel, suspended>>

\* From<AuthorizationCodeCredential> for the builder: the credential, with
\* its serializer as it stands, becomes the builder's.
builder_from_credential ==
    /\ pc \in CredentialStages
    /\ pc' = "builder"
    /\ result' = None
    /\ UNCHANGED <<parameters, credential, implementor, network, facade, listener, channel, suspended>>

\* AuthorizationCodeCredential::with_refresh_token
credential_with_refresh_token ==
    /\ pc \in CredentialStages
    /\ Free("credential")
    /\ \E refresh_token \in RefreshTokenValues :
           credential' = SetRefreshToken(credential, refresh_token)
    /\ pc' = "credential"
    /\ result' = None
    /\ UNCHANGED <<parameters, implementor, network, facade, listener, channel, suspended>>

\* credential.form() returned; the credential is as the call left it.
credential_form ==
    /\ pc \in CredentialStages
    /\ Len(form(credential).self.serializer.scopes) <= MaxFormScopes
    /\ credential' = form(credential).self
    /\ result' = Some(form(credential).ret)
    /\ pc' = "formed"
    /\ UNCHANGED <<parameters, implementor, network, facade, listener, channel, suspended>>

\* credential.basic_auth() returned.
credential_basic_auth ==
    /\ pc \in CredentialStages
    /\ result' = Some(basic_auth(credential))
    /\ pc' = "asked"
    /\ UNCHANGED <<parameters, credential, implementor, network, facade, listener, channel, suspended>>

NextCredential ==
    \/ builder_with_authorization_code
    \/ builder_with_refresh_token
    \/ builder_with_redirect_uri
    \/ builder_with_client_id
    \/ builder_with_client_secret
    \/ builder_with_code_verifier
    \/ builder_with_scope
    \/ builder_build
    \/ builder_from_credential
    \/ credential_with_refresh_token
    \/ credential_form
    \/ credential_basic_auth

SpecCredential == InitCredential /\ [][NextCredential]_vars

\* ---------------------------------------- the credential's token endpoint

builder_with_tenant ==
    \E tenant \in TenantInputs :
        BuilderSet([credential EXCEPT !.authority = TenantId(tenant)])

builder_with_authority ==
    \E auth \in AuthorityInputs :
        BuilderSet([credential EXCEPT !.authority = auth])

\* credential.uri(&options.azure_authority_host) returned, the host being the
\* default one; the credential is as the call left it.
credential_uri ==
    /\ pc \in CredentialStages
    /\ credential' = uri(credential).self
    /\ result' = Some(uri(credential).ret)
    /\ pc' = "located"
    /\ UNCHANGED <<parameters, implementor, network, facade, listener, channel, suspended>>

\* The builder after AuthorizationCodeCredential::builder().
InitUri ==
    /\ UrlIdle
    /\ FacadeIdle
    /\ TokenRequestIdle
    /\ result = None
    /\ pc = "builder"
    /\ credential = AuthorizationCodeCredentialBuilder_new

NextUri ==
    \/ builder_with_tenant
    \/ builder_with_authority
    \/ builder_with_authorization_code
    \/ builder_with_refresh_token
    \/ builder_build
    \/ builder_from_credential
    \/ credential_with_refresh_token
    \/ credential_uri

SpecUri == InitUri /\ [][NextUri]_vars

\* --------------------------- every AuthorizationCodeCredential value

\* The values of the struct (its fields are pub(crate)) with the serializer
\* of a new credential.
AllCredentials ==
    [authorization_code : OptionOf(AuthorizationCodeValues),
     refresh_token : OptionOf(RefreshTokenValues),
     client_id : ClientIdValues \cup {<<>>},
     client_secret : ClientSecretValues \cup {<<>>},
     redirect_uri : RedirectUriValues \cup {<<>>},
     scope : CredentialScopeValues,
     authority : {"Common"},
     code_verifier : OptionOf(CodeVerifierValues),
     serializer : {OAuth_new}]

InitCredentialValues ==
    /\ UrlIdle
    /\ FacadeIdle
    /\ TokenRequestIdle
    /\ result = None
    /\ pc = "credential"
    /\ credential \in AllCredentials

NextCredentialValues ==
    \/ credential_with_refresh_token
    \/ credential_form

SpecCredentialValues == InitCredentialValues /\ [][NextCredentialValues]_vars

\* ------------------------------------------------- the token request

\* The objects get_token can be called on: the authorization code
\* credential and the other implementor.
TokenRequestSelf == {"credential", "implementor"}

\* self.uri(..), self.form() on what uri left, and self.basic_auth() on what
\* form left, for the object the call is made on.
SelfUri(self) ==
    IF self = "credential" THEN uri(credential)
    ELSE Returns(implementor.uri, credential)

SelfForm(self) ==
    IF self = "credential" THEN form(SelfUri(self).self)
    ELSE Returns(implementor.form, credential)

SelfBasicAuth(self) ==
    IF self = "credential" THEN basic_auth(SelfForm(self).self)
    ELSE implementor.basic_auth

\* The credential as the call leaves it: form() is not reached when uri()
\* fails.
SelfAfter(self) ==
    IF SelfUri(self).ret.ok THEN SelfForm(self).self ELSE SelfUri(self).self

\* The record of a finished call: which method on which object, what uri()
\* and form() returned to it (form: None when not called), and what it
\* returned.
Finished(method, self, call) ==
    [method |-> method, self |-> self,
     uri |-> SelfUri(self).ret,
     form |-> IF SelfUri(self).ret.ok THEN Some(SelfForm(self).ret) ELSE None,
     basic_auth |-> SelfBasicAuth(self),
     ret |-> call.ret]

\* A call returned: its requests are on the network.
Called(method, self, call) ==
    /\ pc \in CredentialStages
    /\ Free(self)
    /\ Len(network) + Len(call.sent) <= MaxRequests
    /\ Len(SelfAfter(self).serializer.scopes) <= MaxFormScopes
    /\ network' = network \o call.sent
    /\ credential' = SelfAfter(self)
    /\ result' = Some(Finished(method, self, call))
    /\ pc' = "formed"
    /\ UNCHANGED <<parameters, implementor, facade, listener, channel, suspended>>

get_token ==
    \E self \in TokenRequestSelf, built \in BOOLEAN, answer \in SendResults :
        Called("get_token", self,
               TokenRequest_get_token(SelfUri(self).ret, SelfForm(self).ret,
                                      SelfBasicAuth(self), built, answer))

\* get_token_async polled up to send().await with the answer outstanding:
\* uri() and form() have changed self, the client is built and send() was
\* called with the request and polled once.  The request is in the hands of
\* the HTTP client; nothing has been answered and nothing is returned yet.
Pending(method, self, request) ==
    /\ pc \in CredentialStages
    /\ Free(self)
    /\ Len(SelfAfter(self).serializer.scopes) <= MaxFormScopes
    /\ suspended' = suspended \cup
           { [self |-> self, request |-> request,
              call |-> Finished(method, self, [ret |-> None])] }
    /\ credential' = SelfAfter(self)
    /\ result' = None
    /\ pc' = "formed"
    /\ UNCHANGED <<parameters, implementor, network, facade, listener, channel>>

\* The first poll of get_token_async: the call runs to its end (an error
\* before send(), or send() answered at once), or it is left suspended at
\* send().await.
get_token_async ==
    \E self \in TokenRequestSelf, built \in BOOLEAN, answer \in SendResults :
        \/ Called("get_token_async", self,
                  TokenRequest_get_token_async(SelfUri(self).ret, SelfForm(self).ret,
                                               SelfBasicAuth(self), built, answer))
        \/ /\ SelfUri(self).ret.ok
           /\ SelfForm(self).ret.ok
           /\ built
           /\ Pending("get_token_async", self,
                      AsyncRequest(SelfUri(self).ret.url, SelfForm(self).ret.form,
                                   SelfBasicAuth(self)))

\* A suspended get_token_async is polled again and send() is answered: the
\* request is on the network and the answer is returned.
get_token_async_resumed ==
    /\ pc \in CredentialStages
    /\ Len(network) < MaxRequests
    /\ \E future \in suspended, answer \in SendResults :
           /\ future.self \in TokenRequestSelf
           /\ suspended' = suspended \ {future}
           /\ network' = network \o Sent(future.request, answer)
           /\ result' = Some([future.call EXCEPT !.ret = answer])
    /\ pc' = "formed"
    /\ UNCHANGED <<parameters, credential, implementor, facade, listener, channel>>

\* The future of a suspended get_token_async is dropped (a timeout, a
\* select, an abort): the wait for the answer is cancelled, nothing is
\* returned, and self stays as the first poll left it.  The request was
\* handed to the HTTP client by the first poll: it has left for the server
\* by now, its answer discarded, or it never left.
get_token_async_dropped ==
    /\ pc \in CredentialStages
    /\ \E future \in suspended, left \in BOOLEAN :
           /\ future.self \in TokenRequestSelf
           /\ suspended' = suspended \ {future}
           /\ left => Len(network) < MaxRequests
           /\ network' = IF left THEN Append(network, future.request) ELSE network
    /\ result' = None
    /\ pc' = "formed"
    /\ UNCHANGED <<parameters, credential, implementor, facade, listener, channel>>

\* A credential from AuthorizationCodeCredential::new, or from the builder
\* with a refresh token, and any other implementor; nothing sent yet.
InitTokenRequest ==
    /\ UrlIdle
    /\ FacadeIdle
    /\ pc = "credential"
    /\ result = None
    /\ network = <<>>
    /\ suspended = {}
    /\ implementor \in Implementors
    /\ credential \in
           { c \in AllCredentials :
               /\ ~(IsSome(c.authorization_code) /\ IsSome(c.refresh_token))
               /\ c.client_id # <<>>
               /\ c.client_secret = <<"s">>
               /\ c.redirect_uri # <<>>
               /\ c.code_verifier = None }

NextTokenRequest ==
    \/ get_token
    \/ get_token_async
    \/ get_token_async_resumed
    \/ get_token_async_dropped
    \/ credential_with_refresh_token

SpecTokenRequest == InitTokenRequest /\ [][NextTokenRequest]_vars

\* ------------------------------- the facades over a wrapped credential
\*              (identity/credentials/confidential_client_application.rs)

\* The methods of trait TokenCredentialExecutor.
ExecutorCalls ==
    { "uri", "form_urlencode", "client_id", "authority", "azure_cloud_instance",
      "basic_auth", "app_config", "execute", "execute_async" }

\* execute / execute_async of the wrapped credential: the token request made
\* from its uri(), form and basic_auth(); it returns what the request
\* returned together with the requests it sent.
Credential_execute(self, call, built, answer) ==
    LET located == uri(self)
        formed == form(located.self)
        pair == basic_auth(formed.self)
    IN  Returns(IF call = "execute"
                THEN TokenRequest_get_token(located.ret, formed.ret, pair, built, answer)
                ELSE TokenRequest_get_token_async(located.ret, formed.ret, pair, built, answer),
                IF located.ret.ok THEN formed.self ELSE located.self)

\* A call of one of the methods on the wrapped credential: what it returns
\* and the credential as the call leaves it.
Credential_call(self, call, built, answer) ==
    CASE call = "uri" -> uri(self)
      [] call = "form_urlencode" -> form(self)
      [] call = "client_id" -> Returns(self.client_id, self)
      [] call = "authority" -> Returns(self.authority, self)
      [] call = "azure_cloud_instance" -> Returns("AzurePublic", self)
      [] call = "basic_auth" -> Returns(basic_auth(self), self)
      [] call = "app_config" ->
             Returns([client_id |-> self.client_id,
                      redirect_uri |-> self.redirect_uri,
                      authority |-> self.authority], self)
      [] call \in {"execute", "execute_async"} ->
             Credential_execute(self, call, built, answer)

\* A slip: the facade hands the call to a clone of its credential, so what
\* the call changes in the credential is lost.
ConfidentialClient_call_OnClone(self, call, built, answer) ==
    Returns(Credential_call(self.credential, call, built, answer).ret, self)

\* impl TokenCredentialExecutor for ConfidentialClient<Credential>: every
\* method is self.credential.method().
ConfidentialClient_call(self, call, built, answer) ==
    LET forwarded == Credential_call(self.credential, call, built, answer)
    IN  Returns(forwarded.ret, [self EXCEPT !.credential = forwarded.self])

\* impl TokenCredentialExecutor for ConfidentialClientApplication: every
\* method is self.credential.method(); http_client is not used.
ConfidentialClientApplication_call(self, call, built, answer) ==
    LET forwarded == Credential_call(self.credential, call, built, answer)
    IN  Returns(forwarded.ret, [self EXCEPT !.credential = forwarded.self])

\* The same call made on the bare credential and on the facade, in the same
\* surroundings (client build and network answer); the bare credential's
\* requests go on the network, the facade's are kept with its result.
FacadeCalled(call, bare, wrapped) ==
    /\ pc = "facade"
    /\ Free("credential")
    /\ Free("facade")
    /\ Len(bare.self.serializer.scopes) <= MaxFormScopes
    /\ Len(wrapped.self.credential.serializer.scopes) <= MaxFormScopes
    /\ call \in {"execute", "execute_async"} =>
           Len(network) + Len(bare.ret.sent) <= MaxRequests
    /\ credential' = bare.self
    /\ facade' = wrapped.self
    /\ network' = IF call \in {"execute", "execute_async"}
                  THEN network \o bare.ret.sent ELSE network
    /\ result' = Some([call |-> call, bare |-> bare.ret, facade |-> wrapped.ret])
    /\ UNCHANGED <<parameters, implementor, listener, channel, pc, suspended>>

\* Poll::Pending: what a poll of execute_async gives while send() is
\* outstanding; no request has gone out.
PollPending == Call([ok |-> FALSE, kind |-> "Pending"], <<>>)

\* execute_async polled once on the bare credential and on the facade, both
\* left suspended at send().await: each has changed its credential, built
\* its client and handed its request to it; nothing is answered and nothing
\* is returned.  `bare` and
\* `wrapped` are the calls as they end once send() is answered.
FacadePending(bare, wrapped) ==
    /\ pc = "facade"
    /\ Free("credential")
    /\ Free("facade")
    /\ Len(bare.self.serializer.scopes) <= MaxFormScopes
    /\ Len(wrapped.self.credential.serializer.scopes) <= MaxFormScopes
    /\ Len(bare.ret.sent) = 1
    /\ credential' = bare.self
    /\ facade' = wrapped.self
    /\ suspended' = { [self |-> "credential", request |-> bare.ret.sent[1]],
                      [self |-> "facade", request |-> wrapped.ret.sent[1]] }
    /\ result' = Some([call |-> "execute_async", bare |-> PollPending,
                       facade |-> PollPending])
    /\ UNCHANGED <<parameters, implementor, network, listener, channel, pc>>

confidential_client_call ==
    /\ "http_client" \notin DOMAIN facade
    /\ \E call \in ExecutorCalls, built \in BOOLEAN, answer \in SendResults :
           \/ FacadeCalled(call, Credential_call(credential, call, built, answer),
                           ConfidentialClient_call(facade, call, built, answer))
           \/ /\ call = "execute_async"
              /\ FacadePending(Credential_call(credential, call, built, answer),
                               ConfidentialClient_call(facade, call, built, answer))

confidential_client_application_call ==
    /\ "http_client" \in DOMAIN facade
    /\ \E call \in ExecutorCalls, built \in BOOLEAN, answer \in SendResults :
           \/ FacadeCalled(call, Credential_call(credential, call, built, answer),
                           ConfidentialClientApplication_call(facade, call, built, answer))
           \/ /\ call = "execute_async"
              /\ FacadePending(Credential_call(credential, call, built, answer),
                               ConfidentialClientApplication_call(facade, call, built,
                                                                  answer))

\* A suspended execute_async, on the bare credential or on the facade, is
\* polled again and send() is answered: its request goes out (the bare
\* credential's on the network, the facade's kept with its result) and the
\* answer is returned.
execute_async_resumed ==
    /\ pc = "facade"
    /\ \E future \in suspended, answer \in SendResults :
           /\ future.self \in {"credential", "facade"}
           /\ suspended' = suspended \ {future}
           /\ IF future.self = "credential"
              THEN /\ Len(network) < MaxRequests
                   /\ network' = network \o Sent(future.request, answer)
                   /\ result' = Some([Unwrap(result) EXCEPT
                                          !.bare = Call(answer,
                                                        Sent(future.request, answer))])
              ELSE /\ network' = network
                   /\ result' = Some([Unwrap(result) EXCEPT
                                          !.facade = Call(answer,
                                                          Sent(future.request, answer))])
    /\ UNCHANGED <<parameters, credential, implementor, facade, listener, channel, pc>>

\* The future of a suspended execute_async is dropped: nothing is returned
\* and the credential stays as the first poll left it.  The request was
\* handed to the HTTP client by the first poll: it has left for the server
\* by now, its answer discarded, or it never left.
execute_async_dropped ==
    /\ pc = "facade"
    /\ \E future \in suspended, left \in BOOLEAN :
           /\ future.self \in {"credential", "facade"}
           /\ suspended' = suspended \ {future}
           /\ (left /\ future.self = "credential") => Len(network) < MaxRequests
           /\ network' = IF left /\ future.self = "credential"
                          THEN Append(network, future.request)
                          ELSE network
           /\ result' =
                  IF ~left THEN result
                  ELSE IF future.self = "credential"
                  THEN Some([Unwrap(result) EXCEPT
                                 !.bare = Call(PollPending.ret, <<future.request>>)])
                  ELSE Some([Unwrap(result) EXCEPT
                                 !.facade = Call(PollPending.ret, <<future.request>>)])
    /\ UNCHANGED <<parameters, credential, implementor, facade, listener, channel, pc>>

\* ConfidentialClient::from(credential.clone())
confidential_client_from ==
    /\ pc = "wrapping"
    /\ facade' = ConfidentialClient_new(credential)
    /\ pc' = "facade"
    /\ UNCHANGED <<parameters, credential, implementor, network, listener, channel,
                   suspended, result>>

\* ConfidentialClientApplication::from(credential.clone()): the facade, or
\* the panic of build().unwrap().
confidential_client_application_from ==
    /\ pc = "wrapping"
    /\ \E built \in BOOLEAN :
           LET made == ConfidentialClientApplication_credential(credential, built)
           IN  IF IsSome(made)
               THEN facade' = Unwrap(made) /\ pc' = "facade"
               ELSE facade' = facade /\ pc' = "panicked"
    /\ UNCHANGED <<parameters, credential, implementor, network, listener, channel,
                   suspended, result>>

\* A credential that is about to be wrapped in a facade.
InitFacade ==
    /\ UrlIdle
    /\ TokenRequestIdle
    /\ FacadeIdle
    /\ pc = "wrapping"
    /\ result = None
    /\ credential \in
           { c \in AllCredentials :
               /\ ~(IsSome(c.authorization_code) /\ IsSome(c.refresh_token))
               /\ c.client_id # <<>>
               /\ c.client_secret = <<"s">>
               /\ c.redirect_uri # <<>>
               /\ c.code_verifier = None }

NextFacade ==
    \/ confidential_client_from
    \/ confidential_client_application_from
    \/ confidential_client_call
    \/ confidential_client_application_call
    \/ execute_async_resumed
    \/ execute_async_dropped

SpecFacade == InitFacade /\ [][NextFacade]_vars

\* ------------------------------------------ interactive authentication
\*                     (identity/credentials/auth_code_authorization_url.rs)

\* Most URLs the listener thread sends before it ends.
MaxDelivered == 2

\* Strings the web view may report as the final redirect: no query and no
\* fragment, a query, a fragment, both, an empty query before a fragment, and
\* a string that is no absolute URL.
RedirectUrlInputs ==
    { <<"h", ":", "/", "/", "l", ":", "8">>,
      <<"h", ":", "/", "/", "l", ":", "8", "/", "?", "c", "o", "d", "e", "=", "1">>,
      <<"h", ":", "/", "/", "l", ":", "8", "/", "#", "c", "o", "d", "e", "=", "1">>,
      <<"h", ":", "/", "/", "l", ":", "8", "/", "?", "c", "o", "d", "e", "=", "1", "#", "s", "t", "a", "t", "e", "=", "2">>,
      <<"h", ":", "/", "/", "l", ":", "8", "/", "?", "#", "s", "t", "a", "t", "e", "=", "2">>,
      <<"l">> }

\* str::find of one character: the index of its first occurrence, 0 for none.
Find(s, c) ==
    IF \A i \in 1..Len(s) : s[i] # c THEN 0
    ELSE CHOOSE k \in 1..Len(s) : s[k] = c /\ \A j \in 1..(k - 1) : s[j] # c

\* Url::parse(&url_string): an absolute URL starts with its scheme and "//";
\* a host with nothing after it gets the path "/".  Anything else is a parse
\* error.
RedirectUrl_parse(s) ==
    IF Len(s) < 5 \/ SubSeq(s, 1, 4) # <<"h", ":", "/", "/">>
    THEN [ok |-> FALSE, kind |-> "MalformedUrl"]
    ELSE LET ends == { i \in 5..Len(s) : s[i] \in {"/", "?", "#"} }
             stop == IF ends = {} THEN Len(s) + 1
                     ELSE CHOOSE i \in ends : \A j \in ends : i <= j
         IN  [ok |-> TRUE,
              url |-> IF stop <= Len(s) /\ s[stop] = "/" THEN s
                      ELSE SubSeq(s, 1, stop - 1) \o <<"/">>
                               \o SubSeq(s, stop, Len(s))]

\* Url::query: what stands between the first "?" and the fragment; None when
\* the URL has no "?" before its fragment.
Url_query(redirect) ==
    LET hash == Find(redirect, "#")
        before == IF hash = 0 THEN redirect ELSE SubSeq(redirect, 1, hash - 1)
        mark == Find(before, "?")
    IN  IF mark = 0 THEN None ELSE Some(SubSeq(before, mark + 1, Len(before)))

\* Url::fragment: what follows the first "#"; None when there is none.
Url_fragment(redirect) ==
    LET hash == Find(redirect, "#")
    IN  IF hash = 0 THEN None ELSE Some(SubSeq(redirect, hash + 1, Len(redirect)))

\* A slip: the fragment is looked at before the query.
RedirectPayload_FragmentFirst(redirect) ==
    IF IsSome(Url_fragment(redirect)) THEN Url_fragment(redirect) ELSE Url_query(redirect)

\* A slip: only the query is looked at.
RedirectPayload_QueryOnly(redirect) == Url_query(redirect)

\* url.query().or(url.fragment())
RedirectPayload(redirect) ==
    IF IsSome(Url_query(redirect)) THEN Url_query(redirect) ELSE Url_fragment(redirect)

\* format!("No query or fragment returned on redirect, url: {url}")
NoPayloadMessage(redirect) ==
    <<"N", "o", " ", "q", "u", "e", "r", "y", " ", "o", "r", " ", "f",
      "r", "a", "g", "m", "e", "n", "t", " ", "r", "e", "t", "u",
      "r", "n", "e", "d", " ", "o", "n", " ", "r", "e", "d", "i",
      "r", "e", "c", "t", ",", " ", "u", "r", "l", ":", " ">>
        \o redirect

\* AF::msg_err(name, message): the failure that names what is missing and
\* carries a message; the kind is the one the specification gives the missing
\* redirect payload.
AF_msg_err(name, message) ==
    [ok |-> FALSE, kind |-> "MissingRedirectPayload", name |-> name,
     message |-> message]

\* form_urlencoded::parse on one percent-encoded byte of the model's alphabet.
DecodeHex(h) ==
    CASE h = <<"3", "A">> -> ":"
      [] h = <<"2", "F">> -> "/"
      [] h = <<"2", "B">> -> "+"
      [] h = <<"2", "6">> -> "&"
      [] h = <<"3", "D">> -> "="
      [] h = <<"2", "5">> -> "%"
      [] h = <<"2", "0">> -> " "

RECURSIVE FormDecode(_)
\* Form-decoding of a value: "+" is a space, %XY is the byte XY.
FormDecode(s) ==
    IF s = <<>> THEN <<>>
    ELSE IF Head(s) = "+" THEN <<" ">> \o FormDecode(Tail(s))
    ELSE IF Head(s) = "%" /\ Len(s) >= 3
    THEN <<DecodeHex(SubSeq(s, 2, 3))>> \o FormDecode(SubSeq(s, 4, Len(s)))
    ELSE <<Head(s)>> \o FormDecode(Tail(s))

RECURSIVE Split(_, _)
\* str::split on one character: the pieces between the separators, empty
\* pieces included.
Split(s, sep) ==
    IF \A i \in 1..Len(s) : s[i] # sep THEN <<s>>
    ELSE LET i == CHOOSE k \in 1..Len(s) : s[k] = sep /\ \A j \in 1..(k - 1) : s[j] # sep
         IN  <<SubSeq(s, 1, i - 1)>> \o Split(SubSeq(s, i + 1, Len(s)), sep)

\* One name=value piece of a form-urlencoded string, decoded; a piece without
\* "=" is a name with an empty value.
QueryPair(piece) ==
    LET eq == Find(piece, "=")
    IN  IF eq = 0 THEN [key |-> FormDecode(piece), value |-> <<>>]
        ELSE [key |-> FormDecode(SubSeq(piece, 1, eq - 1)),
              value |-> FormDecode(SubSeq(piece, eq + 1, Len(piece)))]

\* serde_urlencoded::from_str::<AuthorizationQueryResponse>: the pairs of the
\* string in order, empty pieces skipped; every field of the response is
\* optional, so any subset of them decodes.
serde_urlencoded_from_str(payload) ==
    LET pieces == SelectSeq(Split(payload, "&"), LAMBDA piece : piece # <<>>)
    IN  [ok |-> TRUE,
         response |-> [i \in 1..Len(pieces) |-> QueryPair(pieces[i])]]

\* interactive_webview_authentication after interactive_authentication has
\* returned Ok(next).
RedirectResponse(next) ==
    IF IsNone(next)
    THEN [ok |-> FALSE, kind |-> "Message",
          message |-> "Unable to get url from redirect in web view"]
    ELSE LET parsed == RedirectUrl_parse(Unwrap(next))
         IN  IF ~parsed.ok THEN parsed
             ELSE IF IsNone(RedirectPayload(parsed.url))
             THEN AF_msg_err("query | fragment", NoPayloadMessage(parsed.url))
             ELSE serde_urlencoded_from_str(Unwrap(RedirectPayload(parsed.url)))

\* A slip: the listener thread is started before the URL is validated.
interactive_authentication_SpawnsFirst ==
    /\ pc = "building"
    /\ listener' = [listener EXCEPT !.spawned = @ + 1, !.state = "running"]
    /\ channel' = <<>>
    /\ IF ~authorization_url(parameters).ok
       THEN pc' = "returned" /\ result' = Some(authorization_url(parameters))
       ELSE IF IsNone(parameters.redirect_uri)
       THEN pc' = "panicked" /\ result' = None
       ELSE pc' = "polling" /\ result' = None
    /\ UNCHANGED <<parameters, credential, implementor, network, facade, suspended>>

\* interactive_authentication up to its loop: the URL is built (an error is
\* returned through `?`), redirect_uri is unwrapped (a panic when it is None),
\* the channel is made and the listener thread spawned.
interactive_authentication ==
    /\ pc = "building"
    /\ IF ~authorization_url(parameters).ok
       THEN /\ pc' = "returned"
            /\ result' = Some(authorization_url(parameters))
            /\ UNCHANGED <<listener, channel>>
       ELSE IF IsNone(parameters.redirect_uri)
       THEN /\ pc' = "panicked"
            /\ result' = None
            /\ UNCHANGED <<listener, channel>>
       ELSE /\ listener' = [listener EXCEPT !.spawned = @ + 1, !.state = "running"]
            /\ channel' = <<>>
            /\ pc' = "polling"
            /\ result' = None
    /\ UNCHANGED <<parameters, credential, implementor, network, facade, suspended>>

\* The listener thread reports a redirect: sender.send(url).  The value is
\* queued while the receiver lives and dropped once the caller has returned.
listener_send ==
    /\ listener.state = "running"
    /\ Len(listener.sent) < MaxDelivered
    /\ \E redirect \in RedirectUrlInputs :
           /\ listener' = [listener EXCEPT !.sent = Append(@, redirect)]
           /\ channel' = IF pc = "polling" THEN Append(channel, redirect) ELSE channel
    /\ UNCHANGED <<parameters, credential, implementor, network, facade, pc, result, suspended>>

\* The listener thread ends: InteractiveWebView::interactive_authentication
\* returned Ok, or returned Err and unwrap() panicked the thread.  Either way
\* the sender is dropped.
listener_finish ==
    /\ listener.state = "running"
    /\ \E state \in {"done", "panicked"} : listener' = [listener EXCEPT !.state = state]
    /\ UNCHANGED <<parameters, credential, implementor, network, facade, channel, pc, result, suspended>>

\* A slip: the loop ends when the channel is found empty.
poll_GivesUp ==
    /\ pc = "polling"
    /\ pc' = "captured"
    /\ IF channel = <<>>
       THEN result' = Some([ok |-> TRUE, next |-> None]) /\ UNCHANGED channel
       ELSE result' = Some([ok |-> TRUE, next |-> Some(Head(channel))])
                /\ channel' = Tail(channel)
    /\ UNCHANGED <<parameters, credential, implementor, network, facade, listener, suspended>>

\* One iter.next() of the caller's loop on receiver.try_iter(): None while
\* the channel is empty, whether or not the sender still lives, and the loop
\* goes round; Some(url) ends the loop and Ok(next) is returned.
poll ==
    /\ pc = "polling"
    /\ IF channel = <<>>
       THEN UNCHANGED <<pc, result, channel>>
       ELSE /\ pc' = "captured"
            /\ result' = Some([ok |-> TRUE, next |-> Some(Head(channel))])
            /\ channel' = Tail(channel)
    /\ UNCHANGED <<parameters, credential, implementor, network, facade, listener, suspended>>

\* interactive_webview_authentication on the captured value: parse, pick the
\* payload, decode.
interactive_webview_authentication ==
    /\ pc = "captured"
    /\ result' = Some(RedirectResponse(Unwrap(result).next))
    /\ pc' = "returned"
    /\ UNCHANGED <<parameters, credential, implementor, network, facade, listener, channel, suspended>>

\* The built requests on which interactive_webview_authentication is called:
\* the code flow with the default response mode, with and without a
\* redirect_uri, a parsed and a nil client id, and each scope list.
InteractiveParameters ==
    { p \in BuiltParameters :
        p.response_mode = None /\ p.response_type = BTreeSet_insert(<<>>, "Code") }

InitInteractive ==
    /\ parameters \in InteractiveParameters
    /\ CredentialIdle
    /\ InteractiveIdle
    /\ pc = "building"
    /\ result = None

NextInteractive ==
    \/ interactive_authentication
    \/ listener_send
    \/ listener_finish
    \/ poll
    \/ interactive_webview_authentication

SpecInteractive == InitInteractive /\ [][NextInteractive]_vars

\* The calling thread keeps running: an iteration of its loop that can end
\* the loop is eventually taken.  Nothing is assumed of the listener thread.
SpecInteractiveFair ==
    /\ SpecInteractive
    /\ WF_vars(poll)

\* ------------------------------------------------------------- properties

\* authorization_url() has returned for the parameters as they stand.
Returned == pc = "returned"

\* What it returned.
Outcome == Unwrap(result)

QueryKeys(query) == [i \in 1..Len(query) |-> query[i].key]

HasKey(query, key) == \E i \in 1..Len(query) : query[i].key = key

HasPair(query, key, value) ==
    \E i \in 1..Len(query) : query[i].key = key /\ query[i].value = value

\* The members of the response_type set.
Members(set) == {set[i] : i \in 1..Len(set)}

MissingRequiredValue(name) ==
    [ok |-> FALSE, kind |-> "MissingRequiredValue", name |-> name]

\* A request that passes every rule of the validation sequence.
ValidRequest ==
    /\ IsSome(parameters.redirect_uri)
    /\ parameters.client_id # NilUuid
    /\ parameters.scope # <<>>
    /\ ~Contains(parameters.scope, S_openid)

\* C1: authorization_url() reports the first violated rule in the order
\* (1) redirect_uri absent or blank, (2) client_id nil, (3) scope empty,
\* (4) scope contains "openid"; an absent redirect_uri is reported even when
\* client_id is nil, scope is empty or scope contains "openid".
C1_FirstViolatedRule ==
    Returned =>
        IF IsNone(parameters.redirect_uri)
        THEN Outcome = MissingRequiredValue("redirect_uri")
        ELSE IF Trim(Unwrap(parameters.redirect_uri)) = <<>>
        THEN Outcome = MissingRequiredValue("redirect_uri")
        ELSE IF parameters.client_id = NilUuid
        THEN Outcome = MissingRequiredValue("client_id")
        ELSE IF parameters.scope = <<>>
        THEN Outcome = MissingRequiredValue("scope")
        ELSE IF Contains(parameters.scope, S_openid)
        THEN ~Outcome.ok /\ Outcome.name = "openid"
        ELSE Outcome.ok

\* C2: with a present redirect_uri, a non-nil client_id, a non-empty scope list
\* without "openid" and the default response_type, authorization_url()
\* succeeds and the query holds the client_id, response_type=code, the
\* redirect_uri and the space-joined scope.
C2_ValidRequestSucceeds ==
    (Returned /\ ValidRequest /\ parameters.response_type = <<"Code">>) =>
        /\ Outcome.ok
        /\ HasPair(Outcome.query, "client_id", parameters.client_id)
        /\ HasPair(Outcome.query, "response_type", S_code)
        /\ HasPair(Outcome.query, "redirect_uri",
                   FormEncode(Unwrap(parameters.redirect_uri)))
        /\ HasPair(Outcome.query, "scope",
                   FormEncode(Join(parameters.scope, <<" ">>)))

\* Two scopes and the default response_type: the URL carries the scopes joined
\* by a space (written "+") and the percent-encoded redirect_uri.
C2_Witness ==
    /\ Returned
    /\ parameters.response_type = <<"Code">>
    /\ parameters.scope = << <<"r">>, S_offline_access >>
    /\ Outcome.ok
    /\ HasPair(Outcome.query, "scope", <<"r", "+">> \o S_offline_access)
    /\ HasPair(Outcome.query, "redirect_uri",
               <<"h", "%", "3", "A", "%", "2", "F", "%", "2", "F", "l",
                 "%", "3", "A", "8", "%", "2", "F">>)
    /\ HasPair(Outcome.query, "client_id", <<"a", "1">>)

\* C3: when response_type contains IdToken and response_mode is unset or
\* Query, the URL carries response_mode=fragment and never response_mode=query.
C3_IdTokenForcesFragment ==
    (/\ Returned
     /\ Outcome.ok
     /\ "IdToken" \in Members(parameters.response_type)
     /\ parameters.response_mode \in {None, Some("Query")}) =>
        /\ HasPair(Outcome.query, "response_mode", S_fragment)
        /\ \A i \in 1..Len(Outcome.query) :
               Outcome.query[i].key = "response_mode"
                   => Outcome.query[i].value = S_fragment

\* An explicit Query with IdToken requested came out as fragment.
C3_Witness ==
    /\ Returned
    /\ Outcome.ok
    /\ "IdToken" \in Members(parameters.response_type)
    /\ parameters.response_mode = Some("Query")
    /\ HasPair(Outcome.query, "response_mode", S_fragment)

\* C4: in every case other than (IdToken requested and response_mode unset or
\* Query) the emitted response_mode is the explicitly set one, and when none
\* was set the query has no response_mode key.
C4_ExplicitModePassedThrough ==
    (/\ Returned
     /\ Outcome.ok
     /\ ~(/\ "IdToken" \in Members(parameters.response_type)
          /\ parameters.response_mode \in {None, Some("Query")})) =>
        IF IsSome(parameters.response_mode)
        THEN /\ HasKey(Outcome.query, "response_mode")
             /\ \A i \in 1..Len(Outcome.query) :
                    Outcome.query[i].key = "response_mode"
                        => Outcome.query[i].value =
                               ResponseModeAsRef(Unwrap(parameters.response_mode))
        ELSE ~HasKey(Outcome.query, "response_mode")

\* IdToken with an explicit FormPost: form_post is emitted.
C4_Witness ==
    /\ Returned
    /\ Outcome.ok
    /\ "IdToken" \in Members(parameters.response_type)
    /\ parameters.response_mode = Some("FormPost")
    /\ HasPair(Outcome.query, "response_mode", S_form_post)

\* The response_type value the claim expects for a set of members: the
\* members in the order Code, IdToken, Token, a space (written "+") between.
ExpectedResponseType(members) ==
    CASE members = {} -> S_code
      [] members = {"Code"} -> S_code
      [] members = {"IdToken"} -> S_id_token
      [] members = {"Token"} -> S_token
      [] members = {"Code", "IdToken"} -> S_code \o <<"+">> \o S_id_token
      [] members = {"Code", "Token"} -> S_code \o <<"+">> \o S_token
      [] members = {"IdToken", "Token"} -> S_id_token \o <<"+">> \o S_token
      [] members = {"Code", "IdToken", "Token"} ->
             S_code \o <<"+">> \o S_id_token \o <<"+">> \o S_token

\* C5: the response_type value is the members of the set joined by one space
\* in the order Code, IdToken, Token, whatever the order they were passed in;
\* an empty set gives response_type=code.
C5_CanonicalResponseType ==
    (Returned /\ Outcome.ok) =>
        /\ HasPair(Outcome.query, "response_type",
                   ExpectedResponseType(Members(parameters.response_type)))
        /\ Len(SelectSeq(Outcome.query, LAMBDA e : e.key = "response_type")) = 1

\* Code and IdToken requested: response_type=code+id_token.
C5_Witness ==
    /\ Returned
    /\ Outcome.ok
    /\ Members(parameters.response_type) = {"Code", "IdToken"}
    /\ HasPair(Outcome.query, "response_type",
               <<"c", "o", "d", "e", "+", "i", "d", "_", "t", "o", "k", "e", "n">>)

\* C6: response_type {IdToken} with no explicit response_mode gives
\* response_mode=fragment and response_type=id_token.
C6_IdTokenAlone ==
    (/\ Returned
     /\ ValidRequest
     /\ Members(parameters.response_type) = {"IdToken"}
     /\ IsNone(parameters.response_mode)) =>
        /\ Outcome.ok
        /\ HasPair(Outcome.query, "response_mode", S_fragment)
        /\ HasPair(Outcome.query, "response_type", S_id_token)

C6_Witness ==
    /\ Returned
    /\ Members(parameters.response_type) = {"IdToken"}
    /\ IsNone(parameters.response_mode)
    /\ Outcome.ok
    /\ HasPair(Outcome.query, "response_type", S_id_token)

\* C7: with redirect_uri present and client_id non-nil, an empty scope list
\* makes authorization_url() fail with MissingRequiredValue naming "scope";
\* no URL is returned.
C7_EmptyScope ==
    (/\ Returned
     /\ IsSome(parameters.redirect_uri)
     /\ parameters.client_id # NilUuid
     /\ parameters.scope = <<>>) =>
        Outcome = MissingRequiredValue("scope")

C7_Witness ==
    /\ Returned
    /\ IsSome(parameters.redirect_uri)
    /\ parameters.client_id # NilUuid
    /\ parameters.scope = <<>>
    /\ ~Outcome.ok
    /\ Outcome.name = "scope"

\* Some entry of the scope list is "openid", as passed or once trimmed.
HoldsOpenid ==
    \E i \in 1..Len(parameters.scope) : Trim(parameters.scope[i]) = S_openid

\* C8 as stated: a scope list containing "openid" makes authorization_url()
\* fail with the InvalidValue error naming "openid".
C8_OpenidAlwaysInvalidValue ==
    (Returned /\ HoldsOpenid) =>
        /\ ~Outcome.ok
        /\ Outcome.kind = "InvalidValue"
        /\ Outcome.name = "openid"

\* C8 (amended): with a non-nil client_id, a scope list containing "openid"
\* (anywhere in the list, also when passed with surrounding whitespace, and
\* also without a redirect_uri) fails with InvalidValue naming "openid", which
\* is not a MissingRequiredValue error; with a nil client_id the error is
\* MissingRequiredValue naming "client_id".
C8_OpenidInvalidValue ==
    (Returned /\ HoldsOpenid) =>
        IF parameters.client_id # NilUuid
        THEN /\ ~Outcome.ok
             /\ Outcome.kind = "InvalidValue"
             /\ Outcome.kind # "MissingRequiredValue"
             /\ Outcome.name = "openid"
        ELSE Outcome = MissingRequiredValue("client_id")

\* "openid" after another scope, no redirect_uri set: InvalidValue.
C8_Witness ==
    /\ Returned
    /\ parameters.client_id # NilUuid
    /\ IsNone(parameters.redirect_uri)
    /\ parameters.scope = << <<"r">>, S_openid >>
    /\ ~Outcome.ok
    /\ Outcome.kind = "InvalidValue"
    /\ Outcome.name = "openid"

\* The order of the query keys the claim states.
RequiredKeyOrder == << "client_id", "response_type", "redirect_uri", "scope" >>

OptionalKeyOrder ==
    << "response_mode", "state", "prompt", "login_hint", "domain_hint",
       "nonce", "code_challenge", "code_challenge_method" >>

\* C9: in every URL the query keys are client_id, response_type, redirect_uri,
\* scope, then those of response_mode, state, prompt, login_hint, domain_hint,
\* nonce, code_challenge, code_challenge_method that were set, in that order,
\* whatever the order of the setter calls.
C9_QueryKeyOrder ==
    (Returned /\ Outcome.ok) =>
        /\ QueryKeys(Outcome.query) =
               RequiredKeyOrder \o
               SelectSeq(OptionalKeyOrder, LAMBDA k : HasKey(Outcome.query, k))
        /\ \A f \in OptionalTextFields :
               HasKey(Outcome.query, f) <=> IsSome(parameters[f])
        /\ IsSome(parameters.response_mode) => HasKey(Outcome.query, "response_mode")

\* login_hint and domain_hint both set: login_hint comes first.
C9_Witness ==
    /\ Returned
    /\ Outcome.ok
    /\ IsNone(parameters.response_mode)
    /\ QueryKeys(Outcome.query) =
           << "client_id", "response_type", "redirect_uri", "scope",
              "login_hint", "domain_hint" >>

\* C10: authorization_url() returns an error or a URL whose query holds all
\* four required keys; a missing required value ends the encoding with an
\* error and no URL; an unset optional parameter is skipped without error.
C10_NoPartialUrl ==
    Returned =>
        /\ Outcome.ok =>
               \A i \in 1..Len(RequiredKeyOrder) :
                   HasKey(Outcome.query, RequiredKeyOrder[i])
        /\ IsNone(parameters.redirect_uri) => ~Outcome.ok
        /\ (/\ parameters.client_id # NilUuid
            /\ parameters.scope # <<>>
            /\ ~Contains(parameters.scope, S_openid)
            /\ IsNone(parameters.redirect_uri)) =>
               Outcome = MissingRequiredValue("redirect_uri")
        /\ (/\ ValidRequest
            /\ IsNone(parameters.response_mode)
            /\ \A f \in OptionalTextFields : IsNone(parameters[f])
            /\ parameters.response_type = <<"Code">>) =>
               Outcome.ok /\ QueryKeys(Outcome.query) = RequiredKeyOrder

\* Everything valid but no redirect_uri: the encoding stops at redirect_uri.
C10_Witness ==
    /\ Returned
    /\ IsNone(parameters.redirect_uri)
    /\ parameters.client_id # NilUuid
    /\ parameters.scope = << <<"r">> >>
    /\ Outcome = MissingRequiredValue("redirect_uri")

\* ------------------------------ properties of AuthorizationCodeCredential

\* form() has returned for the credential as it stands.
Formed == pc = "formed"

\* The body of the form it returned.
Body == Outcome.form

\* Empty or whitespace only.
Blank(str) == \A i \in 1..Len(str) : str[i] = " "

BothSet ==
    IsSome(credential.authorization_code) /\ IsSome(credential.refresh_token)

NeitherSet ==
    IsNone(credential.authorization_code) /\ IsNone(credential.refresh_token)

\* form() failed with MissingRequiredValue naming `name`.
FailsMissing(name) ==
    /\ ~Outcome.ok
    /\ Outcome.kind = "MissingRequiredValue"
    /\ Outcome.name = name

\* The error form() returns for a credential with neither value set and
\* everything else in order.
NeitherSetError ==
    form([AuthorizationCodeCredentialBuilder_new EXCEPT
              !.client_id = <<"i">>, !.client_secret = <<"s">>]).ret

\* C11: form() on a credential with both authorization_code and
\* refresh_token set fails with a ConflictingValues error naming the two
\* fields, a kind distinct from the MissingRequiredValue returned when neither
\* is set; the check precedes the client_id and client_secret checks.
C11_ConflictingValues ==
    (Formed /\ BothSet) =>
        /\ ~Outcome.ok
        /\ Outcome.kind = "ConflictingValues"
        /\ Outcome.kind # NeitherSetError.kind

\* C12: through the builder's setters, AuthorizationCodeCredential::new and
\* with_refresh_token at most one of authorization_code and refresh_token is
\* set, and form() never returns the error of its both-set branch.
C12_AtMostOneSet ==
    /\ ~BothSet
    /\ Formed => (Outcome.ok \/ Outcome.message # BothSetMessage)

\* The builder holds an authorization code, set after a refresh token had
\* been set and redeemed: the refresh token is gone.
C12_Witness ==
    /\ pc = "builder"
    /\ IsSome(credential.authorization_code)
    /\ IsNone(credential.refresh_token)
    /\ IsSome(credential.serializer.params["RefreshToken"])

\* C13: a blank client_id fails with MissingRequiredValue naming client_id; a
\* non-blank client_id with a blank client_secret fails with
\* MissingRequiredValue naming client_secret; both whichever one of
\* authorization_code and refresh_token is set, blank or not.
C13_BlankClientIdOrSecret ==
    (Formed /\ ~BothSet) =>
        /\ Blank(credential.client_id) => FailsMissing("client_id")
        /\ (~Blank(credential.client_id) /\ Blank(credential.client_secret))
               => FailsMissing("client_secret")

\* Blank client_id, blank client_secret and a blank refresh_token: the error
\* names client_id.
C13_Witness ==
    /\ Formed
    /\ credential.client_id = <<" ">>
    /\ credential.client_secret = <<>>
    /\ credential.refresh_token = Some(<<" ">>)
    /\ FailsMissing("client_id")

\* C14: with neither authorization_code nor refresh_token set and client_id
\* and client_secret non-blank, form() fails with MissingRequiredValue naming
\* "authorization_code or refresh_token".
C14_NeitherSet ==
    (/\ Formed
     /\ NeitherSet
     /\ ~Blank(credential.client_id)
     /\ ~Blank(credential.client_secret)) =>
        FailsMissing("authorization_code or refresh_token")

C14_Witness ==
    /\ Formed
    /\ NeitherSet
    /\ credential.client_id = <<"i">>
    /\ credential.client_secret = <<"s">>
    /\ credential.redirect_uri = <<"u">>
    /\ ~Outcome.ok
    /\ Outcome.name = "authorization_code or refresh_token"

\* The keys of the body with or without scope.
WithScope(keys) ==
    IF credential.scope # <<>> THEN keys \cup {"scope"} ELSE keys

\* C15: with refresh_token set (client_id and client_secret non-blank), a
\* blank refresh_token fails with MissingRequiredValue naming refresh_token;
\* otherwise the form has grant_type=refresh_token and the keys client_id,
\* client_secret, refresh_token, grant_type, plus scope when scopes are set,
\* also when redirect_uri is blank.
C15_RefreshTokenForm ==
    (/\ Formed
     /\ IsSome(credential.refresh_token)
     /\ IsNone(credential.authorization_code)
     /\ ~Blank(credential.client_id)
     /\ ~Blank(credential.client_secret)) =>
        IF Blank(Unwrap(credential.refresh_token))
        THEN FailsMissing("refresh_token")
        ELSE /\ Outcome.ok
             /\ DOMAIN Body =
                    WithScope({"client_id", "client_secret", "refresh_token",
                               "grant_type"})
             /\ Body["grant_type"] = S_refresh_token
             /\ Body["refresh_token"] = Unwrap(credential.refresh_token)
             /\ Body["client_id"] = credential.client_id

\* A refresh token, a scope and a blank redirect_uri: the form is returned.
C15_Witness ==
    /\ Formed
    /\ credential.refresh_token = Some(<<"t">>)
    /\ credential.redirect_uri = <<" ">>
    /\ credential.scope = << <<"r">> >>
    /\ Outcome.ok
    /\ Body["grant_type"] = S_refresh_token
    /\ Body["scope"] = <<"r">>

\* C16: with authorization_code set and refresh_token not (client_id and
\* client_secret non-blank), a blank code fails with MissingRequiredValue
\* naming authorization_code, then a blank redirect_uri with
\* MissingRequiredValue naming redirect_uri; otherwise the form has
\* grant_type=authorization_code, the keys client_id, client_secret,
\* redirect_uri, code, grant_type, and code_verifier if and only if one is set.
C16_AuthorizationCodeForm ==
    (/\ Formed
     /\ IsSome(credential.authorization_code)
     /\ IsNone(credential.refresh_token)
     /\ ~Blank(credential.client_id)
     /\ ~Blank(credential.client_secret)) =>
        IF Blank(Unwrap(credential.authorization_code))
        THEN FailsMissing("authorization_code")
        ELSE IF Blank(credential.redirect_uri)
        THEN FailsMissing("redirect_uri")
        ELSE /\ Outcome.ok
             /\ {"client_id", "client_secret", "redirect_uri", "code",
                 "grant_type"} \subseteq DOMAIN Body
             /\ DOMAIN Body \subseteq
                    {"client_id", "client_secret", "redirect_uri", "code",
                     "grant_type", "scope", "code_verifier"}
             /\ Body["grant_type"] = S_authorization_code
             /\ Body["code"] = Unwrap(credential.authorization_code)
             /\ Body["redirect_uri"] = credential.redirect_uri
             /\ "code_verifier" \in DOMAIN Body <=> IsSome(credential.code_verifier)
             /\ IsSome(credential.code_verifier) =>
                    Body["code_verifier"] = Unwrap(credential.code_verifier)

C16_Witness ==
    /\ Formed
    /\ credential.authorization_code = Some(<<"c">>)
    /\ credential.code_verifier = Some(<<"v">>)
    /\ Outcome.ok
    /\ Body["code"] = <<"c">>
    /\ Body["code_verifier"] = <<"v">>
    /\ Body["grant_type"] = S_authorization_code

\* C17: no form holds both an authorization code and a refresh token, and its
\* grant_type matches the one it holds, after any sequence of form() and
\* with_refresh_token calls on a credential whose serializer keeps what
\* earlier form() calls wrote; a refresh_token form has no code, redirect_uri
\* or code_verifier entry.
C17_OneGrantPerForm ==
    (Formed /\ Outcome.ok) =>
        /\ "grant_type" \in DOMAIN Body
        /\ ("code" \in DOMAIN Body) # ("refresh_token" \in DOMAIN Body)
        /\ "code" \in DOMAIN Body => Body["grant_type"] = S_authorization_code
        /\ "refresh_token" \in DOMAIN Body =>
               /\ Body["grant_type"] = S_refresh_token
               /\ DOMAIN Body \cap {"code", "redirect_uri", "code_verifier"} = {}

\* form() in code mode with a code_verifier, then with_refresh_token, then
\* form(): the serializer still holds the code, the form does not.
C17_Witness ==
    /\ Formed
    /\ Outcome.ok
    /\ IsSome(credential.serializer.params["AuthorizationCode"])
    /\ IsSome(credential.serializer.params["CodeVerifier"])
    /\ IsSome(credential.serializer.params["RedirectUri"])
    /\ Body["grant_type"] = S_refresh_token
    /\ DOMAIN Body = {"client_id", "client_secret", "refresh_token", "grant_type"}

\* C18: basic_auth() returns the pair (client_id, client_secret) in every
\* state of the credential, also in refresh mode and when form() would fail,
\* and every successful form() carries client_secret in the body as well.
C18_BasicAuthAlways ==
    /\ pc = "asked" =>
           Outcome = << <<credential.client_id, credential.client_secret>> >>
    /\ (Formed /\ Outcome.ok) =>
           /\ "client_secret" \in DOMAIN Body
           /\ Body["client_secret"] = credential.client_secret

\* basic_auth() asked of a credential in refresh mode whose form() fails.
C18_Witness ==
    /\ pc = "asked"
    /\ IsSome(credential.refresh_token)
    /\ ~form(credential).ret.ok
    /\ Outcome = << << <<"i">>, <<" ">> >> >>

\* ------------------------------------------- properties of TokenRequest

\* uri() or form() returned an error to the call.
ValidationFailed(call) ==
    \/ ~call.uri.ok
    \/ IsSome(call.form) /\ ~Unwrap(call.form).ok

\* uri() and form() both returned Ok to the call.
ValidationPassed(call) ==
    /\ call.uri.ok
    /\ IsSome(call.form)
    /\ Unwrap(call.form).ok

\* The call got as far as send(): it returned a response or the transport
\* error of send().
ReachedSend(call) ==
    /\ ValidationPassed(call)
    /\ call.ret.ok \/ call.ret.name = "send"

\* C19 as stated: when uri() or form() returns an error no request is sent,
\* and when both succeed exactly one POST is sent, with no retry after a
\* network error, which is returned to the caller.
C19_OnePostWhenValid ==
    [][IsSome(result') =>
          LET call == Unwrap(result')
          IN  /\ ValidationFailed(call) =>
                     /\ network' = network
                     /\ call.ret = IF call.uri.ok THEN Unwrap(call.form)
                                    ELSE call.uri
              /\ ValidationPassed(call) =>
                     /\ Len(network') = Len(network) + 1
                     /\ SubSeq(network', 1, Len(network)) = network
                     /\ network'[Len(network')].method = "POST"]_vars

\* C19 (amended): when uri() or form() returns an error no request is sent
\* and that error is returned; when both succeed and the HTTP client is
\* built, exactly one POST is sent, with no retry after a network error,
\* which is returned to the caller; when the client cannot be built no
\* request is sent either.  A get_token_async that has not returned has
\* sent at most that one POST: none is out while it is suspended at
\* send().await, and when it is dropped there the request it handed to the
\* client has gone out once or not at all.
C19_OnePostWhenValidAndBuilt ==
    [][/\ IsNone(result') =>
              \/ network' = network
              \/ \E future \in suspended \ suspended' :
                     /\ network' = Append(network, future.request)
                     /\ future.request.method = "POST"
                     /\ future.call.uri.ok
                     /\ Unwrap(future.call.form).ok
                     /\ future.request.form = Unwrap(future.call.form).form
                     /\ future.request.uri = future.call.uri.url
       /\ IsSome(result') =>
          LET call == Unwrap(result')
          IN  /\ ValidationFailed(call) =>
                     /\ network' = network
                     /\ call.ret = IF call.uri.ok THEN Unwrap(call.form)
                                    ELSE call.uri
              /\ (ValidationPassed(call) /\ ~ReachedSend(call)) =>
                     /\ network' = network
                     /\ call.ret = ClientBuildError
              /\ ReachedSend(call) =>
                     /\ Len(network') = Len(network) + 1
                     /\ SubSeq(network', 1, Len(network)) = network
                     /\ network'[Len(network')].method = "POST"
                     /\ network'[Len(network')].form = Unwrap(call.form).form
                     /\ network'[Len(network')].uri = call.uri.url]_vars

\* A call met a transport error in send(): the error is what it returned and
\* the one request it sent is the only one on the network.
C19_Witness ==
    /\ IsSome(result)
    /\ pc = "formed"
    /\ ~Outcome.ret.ok
    /\ Outcome.ret.name = "send"
    /\ Outcome.self = "credential"
    /\ Len(network) = 1
    /\ network[1].form["grant_type"] = S_authorization_code

\* C20: the request carries the HTTP Basic authorization of the basic_auth()
\* pair if and only if basic_auth() returns a pair, and is sent with the form
\* body only when it returns None; get_token and get_token_async make the
\* same choice for the same credential.
C20_BasicAuthIfPair ==
    (IsSome(result) /\ ReachedSend(Outcome)) =>
        LET request == network[Len(network)]
        IN  /\ request.basic_auth = Outcome.basic_auth
            /\ request.form = Unwrap(Outcome.form).form
            /\ request.client =
                   (IF Outcome.method = "get_token" THEN "blocking" ELSE "async")
            /\ BlockingRequest(request.uri, request.form, Outcome.basic_auth).basic_auth
                   = AsyncRequest(request.uri, request.form, Outcome.basic_auth).basic_auth

\* The async path on an implementor without a pair: the body only.
C20_Witness ==
    /\ IsSome(result)
    /\ ReachedSend(Outcome)
    /\ Outcome.method = "get_token_async"
    /\ Outcome.self = "implementor"
    /\ Outcome.basic_auth = None
    /\ network[Len(network)].basic_auth = None
    /\ network[Len(network)].client = "async"

\* ----------------------------------------- properties of the URL builder

\* C29: after Builder::new and any sequence of setters the response_type set
\* contains Code; with_response_type only adds members, so no step of the
\* builder takes a member out; and every URL the builder returns has a
\* response_type value that starts with "code".
C29_CodeAlwaysRequested ==
    /\ []("Code" \in Members(parameters.response_type))
    /\ [][Members(parameters.response_type) \subseteq Members(parameters'.response_type)]_vars
    /\ []((Returned /\ Outcome.ok) =>
              \E i \in 1..Len(Outcome.query) :
                  /\ Outcome.query[i].key = "response_type"
                  /\ Len(Outcome.query[i].value) >= 4
                  /\ SubSeq(Outcome.query[i].value, 1, 4) = <<"c", "o", "d", "e">>)

\* with_response_type(IdToken) on the new builder, as in test
\* response_mode_set: response_type=code+id_token and response_mode=fragment.
C29_Witness ==
    /\ Returned
    /\ Outcome.ok
    /\ parameters.response_type = <<"Code", "IdToken">>
    /\ IsNone(parameters.response_mode)
    /\ HasPair(Outcome.query, "response_type",
               <<"c", "o", "d", "e", "+", "i", "d", "_", "t", "o", "k", "e", "n">>)
    /\ HasPair(Outcome.query, "response_mode", S_fragment)

\* C26: no setter of the builder rejects its argument or panics; an invalid
\* client_id or redirect_uri is reported only by url(), as MissingRequiredValue
\* naming client_id or redirect_uri.
C26_SettersNeverFail == pc # "panicked"

\* The decoded value of a key of the query.
Decoded(query, key) ==
    FormDecode((CHOOSE e \in Members(query) : e.key = key).value)

\* The names of the members of a response_type set in the order code,
\* id_token, token.
CanonicalResponseTypes(members) ==
    (IF "Code" \in members THEN <<S_code>> ELSE <<>>)
        \o (IF "IdToken" \in members THEN <<S_id_token>> ELSE <<>>)
        \o (IF "Token" \in members THEN <<S_token>> ELSE <<>>)

\* The scope value of the query, decoded and split, is the configured scopes.
ScopeRoundTrip ==
    Members(Split(Decoded(Outcome.query, "scope"), " ")) = Members(parameters.scope)

\* The response_type value of the query, decoded and split, is the configured
\* set in canonical order.
ResponseTypeRoundTrip ==
    Split(Decoded(Outcome.query, "response_type"), " ")
        = CanonicalResponseTypes(Members(parameters.response_type))

\* No configured scope has a space in it.
ScopesWithoutSpace ==
    \A i \in 1..Len(parameters.scope) :
        \A j \in 1..Len(parameters.scope[i]) : parameters.scope[i][j] # " "

\* C27 as stated: for every request for which authorization_url() succeeds,
\* form-decoding the query and splitting scope and response_type on spaces
\* gives back the configured set of scopes and the configured response_type
\* set in canonical order.
C27_RoundTrip ==
    (Returned /\ Outcome.ok) => (ScopeRoundTrip /\ ResponseTypeRoundTrip)

\* C27: for every successful request the round trip gives back the
\* configured response_type set in canonical order when that set is not
\* empty, and code alone when it is empty; and it gives back the configured
\* set of scopes when no configured scope contains a space.
C27_RoundTripOfSpaceFreeScopes ==
    (Returned /\ Outcome.ok) =>
        /\ parameters.response_type # <<>> => ResponseTypeRoundTrip
        /\ parameters.response_type = <<>> =>
               Split(Decoded(Outcome.query, "response_type"), " ") = <<S_code>>
        /\ ScopesWithoutSpace => ScopeRoundTrip

\* Two scopes and three response types passed out of order come back.
C27_Witness ==
    /\ Returned
    /\ Outcome.ok
    /\ parameters.scope = << <<"r">>, S_offline_access >>
    /\ parameters.response_type = <<"Code", "IdToken", "Token">>
    /\ Split(Decoded(Outcome.query, "scope"), " ") = << <<"r">>, S_offline_access >>
    /\ Split(Decoded(Outcome.query, "response_type"), " ") = <<S_code, S_id_token, S_token>>

\* ------------------------------------- properties of the token endpoint

\* uri() has returned for the credential as it stands.
Located == pc = "located"

\* The path segment the claim names for an authority.
ExpectedSegment(auth) ==
    CASE auth = "Common" -> <<"c", "o", "m", "m", "o", "n">>
      [] auth = "Consumers" -> <<"c", "o", "n", "s", "u", "m", "e", "r", "s">>
      [] auth = "Organizations" ->
             <<"o", "r", "g", "a", "n", "i", "z", "a", "t", "i", "o", "n", "s">>
      [] auth = "AzureDirectoryFederatedServices" -> <<"a", "d", "f", "s">>
      [] auth = "TenantId(t1)" -> <<"t", "1">>
      [] auth = "TenantId(common)" -> <<"c", "o", "m", "m", "o", "n">>

\* https://login.microsoftonline.com/<segment>/oauth2/v2.0/token
ExpectedTokenUrl(segment) ==
    <<"h", "t", "t", "p", "s", ":", "/", "/", "l", "o", "g", "i", "n", ".",
      "m", "i", "c", "r", "o", "s", "o", "f", "t", "o", "n", "l", "i", "n",
      "e", ".", "c", "o", "m", "/">>
        \o segment
        \o <<"/", "o", "a", "u", "t", "h", "2", "/", "v", "2", ".", "0",
             "/", "t", "o", "k", "e", "n">>

\* C22: uri() of the credential under the default cloud instance is
\* https://login.microsoftonline.com/<segment>/oauth2/v2.0/token with segment
\* "common" when no authority was chosen, the tenant id for TenantId, and
\* consumers, organizations, adfs for those authorities; it depends on the
\* authority only and is the same whether the credential holds an
\* authorization code or a refresh token.
C22_TokenEndpoint ==
    Located =>
        Outcome = [ok |-> TRUE,
                   url |-> ExpectedTokenUrl(ExpectedSegment(credential.authority))]

\* A refresh-token credential of tenant t1, located after an earlier uri()
\* call under another authority.
C22_Witness ==
    /\ Located
    /\ IsSome(credential.refresh_token)
    /\ credential.authority = "TenantId(t1)"
    /\ Outcome.ok
    /\ Outcome.url =
           <<"h", "t", "t", "p", "s", ":", "/", "/", "l", "o", "g", "i",
             "n", ".", "m", "i", "c", "r", "o", "s", "o", "f", "t", "o",
             "n", "l", "i", "n", "e", ".", "c", "o", "m", "/", "t", "1",
             "/", "o", "a", "u", "t", "h", "2", "/", "v", "2", ".", "0",
             "/", "t", "o", "k", "e", "n">>

\* --------------------------------------------- properties of the facades

\* C21: for any sequence of calls of uri, form_urlencode, basic_auth,
\* client_id, authority, azure_cloud_instance, app_config, execute and
\* execute_async, each call on the facade returns what the same sequence on
\* the bare credential returns, and the facade holds nothing but the
\* credential in the state the bare one is in (no state of its own that
\* changes a result).
C21_FacadeForwards ==
    /\ pc = "facade" => facade.credential = credential
    /\ (pc = "facade" /\ IsSome(result)) =>
           IF Outcome.call = "execute_async"
           THEN /\ (Outcome.bare.sent # <<>> /\ Outcome.facade.sent # <<>>) =>
                       Outcome.facade.sent = Outcome.bare.sent
                /\ (Outcome.bare.ret # PollPending.ret
                        /\ Outcome.facade.ret # PollPending.ret) =>
                       /\ Outcome.facade.sent = Outcome.bare.sent
                       /\ Outcome.facade.ret = Outcome.bare.ret =>
                              Outcome.facade = Outcome.bare
           ELSE Outcome.facade = Outcome.bare

\* A second execute through ConfidentialClientApplication after the first
\* one changed the wrapped credential: the same request as the bare one sent.
C21_Witness ==
    /\ pc = "facade"
    /\ "http_client" \in DOMAIN facade
    /\ IsSome(result)
    /\ Outcome.call = "execute"
    /\ Len(network) = 2
    /\ Outcome.facade.ret.ok
    /\ Outcome.facade.sent = <<network[2]>>
    /\ facade.credential.serializer # OAuth_new

\* ------------------------------ properties of interactive authentication

\* C30: the authorization URL is validated before any concurrency starts.
\* When authorization_url() fails, its error is what the call returns, no
\* listener thread was spawned and no channel is polled; and the call never
\* panics on redirect_uri().unwrap(): whenever a listener was spawned (the
\* unwrap was passed) the request holds a redirect_uri, also for a request
\* built without with_redirect_uri.
C30_ValidatedBeforeConcurrency ==
    /\ pc # "panicked"
    /\ listener.spawned > 0 => IsSome(parameters.redirect_uri)
    /\ ~authorization_url(parameters).ok =>
           /\ listener = NoListener
           /\ channel = <<>>
           /\ pc \in {"building", "returned"}
           /\ pc = "returned" => result = Some(authorization_url(parameters))

\* A request built without with_redirect_uri and valid otherwise: the call
\* has returned MissingRequiredValue("redirect_uri") and spawned nothing.
C30_Witness ==
    /\ pc = "returned"
    /\ IsNone(parameters.redirect_uri)
    /\ parameters.client_id = Uuid1
    /\ parameters.scope = << <<"r">> >>
    /\ result = Some(AF_result("redirect_uri"))
    /\ listener.spawned = 0

\* interactive_webview_authentication has returned after a capture.
Answered == pc = "returned" /\ listener.spawned > 0

\* The URL the caller captured: the first one the listener sent.
Captured == listener.sent[1]

\* The decoded response holding the one pair name=value.
OnePair(name, value) ==
    [ok |-> TRUE, response |-> << [key |-> name, value |-> value] >>]

\* C24: once the redirect URL is captured, the URL's query component is
\* decoded when the URL has one, otherwise its fragment component, and with
\* neither the call fails with the missing-redirect-payload error whose
\* message ends with the full URL.
C24_QueryElseFragment ==
    Answered =>
        LET parsed == RedirectUrl_parse(Captured)
        IN  /\ (parsed.ok /\ IsSome(Url_query(parsed.url))) =>
                   Outcome = serde_urlencoded_from_str(Unwrap(Url_query(parsed.url)))
            /\ (parsed.ok /\ IsNone(Url_query(parsed.url))
                    /\ IsSome(Url_fragment(parsed.url))) =>
                   Outcome = serde_urlencoded_from_str(Unwrap(Url_fragment(parsed.url)))
            /\ (parsed.ok /\ IsNone(Url_query(parsed.url))
                    /\ IsNone(Url_fragment(parsed.url))) =>
                   /\ ~Outcome.ok
                   /\ Outcome.kind = "MissingRedirectPayload"
                   /\ Outcome.name = "query | fragment"
                   /\ SubSeq(Outcome.message,
                             Len(Outcome.message) - Len(parsed.url) + 1,
                             Len(Outcome.message)) = parsed.url
            /\ Captured = <<"h", ":", "/", "/", "l", ":", "8", "/", "?", "c", "o", "d", "e", "=", "1">> =>
                   Outcome = OnePair(<<"c", "o", "d", "e">>, <<"1">>)
            /\ Captured = <<"h", ":", "/", "/", "l", ":", "8", "/", "#", "c", "o", "d", "e", "=", "1">> =>
                   Outcome = OnePair(<<"c", "o", "d", "e">>, <<"1">>)
            /\ Captured = 
                    <<"h", ":", "/", "/", "l", ":", "8", "/", "?", "c", "o", "d", "e", "=", "1", "#", "s", "t", "a", "t", "e", "=", "2">> =>
                   Outcome = OnePair(<<"c", "o", "d", "e">>, <<"1">>)
            /\ Captured = <<"h", ":", "/", "/", "l", ":", "8">> =>
                   /\ ~Outcome.ok
                   /\ SubSeq(Outcome.message, 49, Len(Outcome.message))
                          = <<"h", ":", "/", "/", "l", ":", "8", "/">>

\* The captured redirect has no query and no fragment: the call failed and
\* its message names the URL.
C24_Witness ==
    /\ Answered
    /\ Captured = <<"h", ":", "/", "/", "l", ":", "8">>
    /\ ~Outcome.ok
    /\ Outcome.kind = "MissingRedirectPayload"
    /\ Len(Outcome.message) = 56

\* How many of the query and fragment components the captured URL has.
PayloadComponents ==
    LET parsed == RedirectUrl_parse(Captured)
    IN  (IF IsSome(Url_query(parsed.url)) THEN 1 ELSE 0)
            + (IF IsSome(Url_fragment(parsed.url)) THEN 1 ELSE 0)

\* C25 as stated: parsing a redirect URL succeeds only when exactly one of
\* its query and fragment components is present; a URL with both is rejected,
\* as is one with neither.
C25_ExactlyOne ==
    Answered =>
        (Outcome.ok <=> (RedirectUrl_parse(Captured).ok /\ PayloadComponents = 1))

\* C25: parsing a redirect URL succeeds exactly when the URL parses and has
\* a query or a fragment component; a URL with neither is rejected, and a URL
\* with both is accepted and answered from its query.
C25_AtLeastOne ==
    Answered =>
        /\ Outcome.ok <=> (RedirectUrl_parse(Captured).ok /\ PayloadComponents >= 1)
        /\ Captured =
               <<"h", ":", "/", "/", "l", ":", "8", "/", "?", "c", "o", "d", "e", "=", "1", "#", "s", "t", "a", "t", "e", "=", "2">> =>
               Outcome.response = << [key |-> <<"c", "o", "d", "e">>, value |-> <<"1">>] >>

\* A captured redirect with a query and a fragment was accepted.
C25_Witness ==
    /\ Answered
    /\ Captured =
           <<"h", ":", "/", "/", "l", ":", "8", "/", "?", "c", "o", "d", "e", "=", "1", "#", "s", "t", "a", "t", "e", "=", "2">>
    /\ PayloadComponents = 2
    /\ Outcome.ok
    /\ Len(Outcome.response) = 1

\* C23: interactive_authentication starts exactly one listener thread and
\* returns only after a value has arrived on the channel; what it returns is
\* Ok(Some(url)) with the first URL the listener delivered, never Ok(None).
\* If the listener delivers a URL the call eventually returns, and if the
\* listener ends without delivering one the caller polls forever: the loop
\* has no timeout and no cancellation.
C23_BusyWaitForFirstUrl ==
    /\ [](/\ listener.spawned <= 1
          /\ pc \in {"polling", "captured"} => listener.spawned = 1)
    /\ [](pc = "captured" =>
              /\ listener.sent # <<>>
              /\ result = Some([ok |-> TRUE, next |-> Some(listener.sent[1])]))
    /\ (listener.sent # <<>>) ~> (pc \in {"captured", "returned"})
    /\ []((pc = "polling" /\ listener.state \in {"done", "panicked"}
              /\ listener.sent = <<>>)
             => [](pc = "polling"))

\* The loop has ended with the first of two different URLs the one listener
\* sent.
C23_Witness ==
    /\ pc = "captured"
    /\ listener.spawned = 1
    /\ Len(listener.sent) = 2
    /\ listener.sent[1] # listener.sent[2]
    /\ result = Some([ok |-> TRUE, next |-> Some(listener.sent[1])])

====
